---- MODULE Spec2Model ----
(***************************************************************************)
(* Model of the Ascend leaderboard platform (kandysh/ascend).              *)
(*                                                                         *)
(* Three sub-systems share one module and one wall clock:                  *)
(*   - the gateway's Redis token-bucket rate limiter                       *)
(*       apps/gateway/src/middleware/rate-limit.ts                         *)
(*   - the scoring engine, the event bus and the worker                    *)
(*       apps/scores-service/src/routes/scores.ts                          *)
(*       packages/nats-client/src/index.ts                                 *)
(*       apps/worker-service/src/handlers/*.ts                             *)
(*   - API-key validation, its gateway cache, and revocation               *)
(*       apps/gateway/src/middleware/auth.ts, auth-service routes          *)
(*                                                                         *)
(* Times are milliseconds (Date.now()).  Token counts are kept in          *)
(* milli-tokens, so that (now - last_refill) / 1000 * refill_rate is an    *)
(* integer: the Lua script computes in doubles, the model in exact         *)
(* rationals with denominator 1000.                                        *)
(***************************************************************************)
EXTENDS Integers, Sequences, FiniteSets, TLC

VARIABLES
    clock,        \* wall-clock time in ms (Date.now() of every process)
    ticks,        \* number of clock advances so far (bounds the model)
    \* ---- rate limiter (Redis key rate_limit:{tenantId}) ----
    rlBucket,     \* the hash {tokens, last_refill}, or NoBucket
    rlExpireAt,   \* clock time at which the key expires (EXPIRE key 60)
    redisBusy,    \* the requests whose Lua script Redis is executing
    rlPc,         \* per request: "idle", "called" (now read), "script"
    rlNow,        \* per request: the timestamp it read with Date.now()
    rlSnap,       \* per request: what HMGET returned inside the script
    rlOut,        \* per request: last result [allowed, tokens] of the script
    nReq,         \* history: number of script runs completed
    nAllowed,     \* history: number of script runs that returned allowed
    tFirst,       \* history: timestamp of the first script run (-1: none)
    tLast,        \* history: timestamp of the latest script run
    refillLost,   \* history: some refill was cut by the capacity clamp
    deniedEarly,  \* history: a run before the latest one was denied
    \* ---- scoring engine, event bus, worker ----
    lbRow,        \* leaderboards table: per leaderboard id, its row
    meta,         \* Redis hash l:meta:{t}:{p}:{l}
    zset,         \* Redis sorted set l:{t}:{p}:{l}: member -> score
    zTTL,         \* expiry armed on the sorted-set key
    us,           \* per client: the UpdateScore request it is serving
    queue,        \* per subject: messages delivered to the worker's subscription
    scoreEvents,  \* score_events table (rows in insertion order)
    nUpdates,     \* number of update requests started, single or batch (bounds the model)
    nPublished,   \* history: per subject, messages the broker accepted
    nPubFailed,   \* history: publications that failed and were only logged
    nHandled,     \* history: per subject, messages a handler run completed
    written,      \* history: per member, scores set by committed plain writes
    flags,        \* history: things that have happened (see Flag names)
    \* ---- gateway authentication ----
    apiKey,       \* api_keys row of key K: revoked_at
    authCache,    \* Redis key auth:K written by SETEX
    gw,           \* per gateway request: its position in authMiddleware
    nAuth,        \* number of gateway requests started (bounds the model)
    \* ---- administration: subscriptions, key rotation ----
    subs,         \* subscriptions table: number of active rows of tenant T
    cs,           \* per caller: the CreateSubscription request it is serving
    rot,          \* per caller: the RotateApiKey request (on K's id) it is serving
    newKeys,      \* api_keys rows inserted by rotations of K's id (none revoked)
    nAdmin,       \* number of administration requests started (bounds the model)
    \* ---- ranking queries ----
    tq,           \* the ranking query (GET /:id/top, GET /:id/rank/:userId) being served
    nQueries,     \* number of ranking queries started (bounds the model)
    \* ---- batch updates ----
    bu,           \* the POST /batch-update request being served
    \* ---- usage tracking ----
    usage,        \* Redis: the tenant-day and project-day usage hashes
    usagePipe,    \* per gateway response, the pipeline commands not yet run
    stats,        \* what getUsageStats last returned
    nTracked,     \* number of responses seen by usageMiddleware (bounds the model)
    \* ---- billing service ----
    usageRecords, \* usage_records table (rows in insertion order)
    ru,           \* POST /usage/record: last status, calls made, deltas submitted
    \* ---- leaderboards service ----
    lc,           \* leaderboards service: the last request and its reply
    \* ---- API server process ----
    proc          \* start() and shutdown(): positions, isShuttingDown, server, resources

rlVars == <<rlBucket, rlExpireAt, redisBusy, rlPc, rlNow, rlSnap, rlOut,
            nReq, nAllowed, tFirst, tLast, refillLost, deniedEarly>>
scVars == <<lbRow, meta, zset, zTTL, us, queue, scoreEvents, nUpdates,
            nPublished, nPubFailed, nHandled, written, flags>>
authVars == <<apiKey, authCache, gw, nAuth>>
adminVars == <<subs, cs, rot, newKeys, nAdmin>>
queryVars == <<tq, nQueries>>
batchVars == <<bu>>
usageVars == <<usage, usagePipe, stats, nTracked>>
billingVars == <<usageRecords, ru>>
ctlVars == <<lc>>
procVars == <<proc>>
timeVars == <<clock, ticks>>
notRL == <<scVars, authVars, adminVars, queryVars, batchVars, usageVars,
             billingVars, ctlVars, procVars>>
notSC == <<rlVars, authVars, adminVars, queryVars, batchVars, usageVars,
             billingVars, ctlVars, procVars>>
notAuth == <<rlVars, scVars, adminVars, queryVars, batchVars, usageVars,
             billingVars, ctlVars, procVars>>
notAdmin == <<rlVars, scVars, authVars, queryVars, batchVars, usageVars,
             billingVars, ctlVars, procVars>>
notQuery == <<rlVars, scVars, authVars, adminVars, batchVars, usageVars,
             billingVars, ctlVars, procVars>>
notBatch == <<rlVars, authVars, adminVars, queryVars, usageVars,
             billingVars, ctlVars, procVars>>
notUsage == <<rlVars, scVars, authVars, adminVars, queryVars, batchVars,
             billingVars, ctlVars, procVars>>
vars == <<timeVars, rlVars, scVars, authVars, adminVars, queryVars, batchVars,
          usageVars, billingVars, ctlVars, procVars>>
notBilling == <<rlVars, scVars, authVars, adminVars, queryVars, batchVars,
               usageVars, ctlVars, procVars>>
notLb == <<rlVars, authVars, adminVars, queryVars, batchVars, usageVars,
          billingVars, procVars>>
notCtl == <<rlVars, scVars, authVars, adminVars,
           queryVars, batchVars, usageVars, billingVars, procVars>>
notProc == <<rlVars, scVars, authVars, adminVars,
           queryVars, batchVars, usageVars, billingVars, ctlVars>>

----------------------------------------------------------------------------
(* Bounds of the model *)

MaxTicks == 3
MaxRequests == 16
MaxConcRequests == 3
MaxUpdates == 2
MaxDayTicks == 1

(* Program constants *)

MsPerSecond == 1000
RL_KEY_TTL == 60
FreeCapacity == 10
FreeRefillRate == 1
DefaultCost == 1

\* Spacings between requests the model tries: half a second, five seconds,
\* and just past the bucket key's time to live.
TickSteps == {MsPerSecond \div 2, 5 * MsPerSecond, (RL_KEY_TTL + 1) * MsPerSecond}

NoBucket == [tokens |-> -1, last_refill |-> -1, present |-> FALSE]
NoOut == [allowed |-> -1, tokens |-> 0]

Min(a, b) == IF a <= b THEN a ELSE b
Max(a, b) == IF a >= b THEN a ELSE b

----------------------------------------------------------------------------
(* Rate limiter: rateLimitMiddleware and its Lua script *)

\* PLAN_RATE_LIMITS.free, in milli-tokens
Capacity == FreeCapacity * MsPerSecond
RefillRate == FreeRefillRate
Cost == DefaultCost * MsPerSecond

\* The key as Redis shows it: absent once its time to live has passed
RLStored == IF rlBucket.present /\ clock < rlExpireAt THEN rlBucket ELSE NoBucket

\* local tokens = tonumber(bucket[1]) or capacity
SnapTokens(snap) == IF snap.present THEN snap.tokens ELSE Capacity
\* local last_refill = tonumber(bucket[2]) or now
SnapLastRefill(snap, now) == IF snap.present THEN snap.last_refill ELSE now

\* tokens_to_add = (now - last_refill) / 1000 * refill_rate, in milli-tokens
TokensToAdd(snap, now) == (now - SnapLastRefill(snap, now)) * RefillRate

\* tokens = math.min(capacity, tokens + tokens_to_add)
Refilled(snap, now) == Min(Capacity, SnapTokens(snap) + TokensToAdd(snap, now))

EnoughStrict(tokens) == tokens > Cost
\* if tokens >= cost
Enough(tokens) == tokens >= Cost

\* the value of tokens written back and returned
TokensAfter(snap, now) ==
    IF Enough(Refilled(snap, now)) THEN Refilled(snap, now) - Cost
    ELSE Refilled(snap, now)

ScriptInterleaved == TRUE
\* Redis runs one script at a time: EVAL is atomic
ScriptMayStart == redisBusy = {}

\* Requests the model follows: a longer run when they come one at a time
ReqLimit == IF Cardinality(DOMAIN rlPc) = 1 THEN MaxRequests ELSE MaxConcRequests

\* const now = Date.now()
RLReadNow(r) ==
    /\ rlPc[r] = "idle"
    /\ nReq + Cardinality({q \in DOMAIN rlPc : rlPc[q] # "idle"}) < ReqLimit
    /\ rlPc' = [rlPc EXCEPT ![r] = "called"]
    /\ rlNow' = [rlNow EXCEPT ![r] = clock]
    /\ UNCHANGED <<rlBucket, rlExpireAt, redisBusy, rlSnap, rlOut,
                   nReq, nAllowed, tFirst, tLast, refillLost, deniedEarly>>
    /\ UNCHANGED <<timeVars, notRL>>

\* redis.eval(...) starts: HMGET key tokens last_refill
RLScriptRead(r) ==
    /\ rlPc[r] = "called"
    /\ ScriptMayStart
    /\ redisBusy' = redisBusy \cup {r}
    /\ rlSnap' = [rlSnap EXCEPT ![r] = RLStored]
    /\ rlPc' = [rlPc EXCEPT ![r] = "script"]
    /\ UNCHANGED <<rlBucket, rlExpireAt, rlNow, rlOut,
                   nReq, nAllowed, tFirst, tLast, refillLost, deniedEarly>>
    /\ UNCHANGED <<timeVars, notRL>>

\* the rest of the script: refill, consume or deny, HMSET, EXPIRE, return
RLScriptWrite(r) ==
    /\ rlPc[r] = "script"
    /\ LET snap == rlSnap[r]
           now == rlNow[r]
           ok == Enough(Refilled(snap, now))
           after == TokensAfter(snap, now)
       IN /\ rlBucket' = [tokens |-> after, last_refill |-> now, present |-> TRUE]
          /\ rlExpireAt' = clock + RL_KEY_TTL * MsPerSecond
          /\ rlOut' = [rlOut EXCEPT ![r] =
                          [allowed |-> IF ok THEN 1 ELSE 0, tokens |-> after]]
          /\ nReq' = nReq + 1
          /\ nAllowed' = IF ok THEN nAllowed + 1 ELSE nAllowed
          /\ tFirst' = IF tFirst < 0 THEN now ELSE tFirst
          /\ tLast' = now
          /\ refillLost' = (refillLost
                              \/ SnapTokens(snap) + TokensToAdd(snap, now) > Capacity
                              \/ (~snap.present /\ nReq > 0))
          /\ deniedEarly' = (nAllowed < nReq)
    /\ redisBusy' = redisBusy \ {r}
    /\ rlPc' = [rlPc EXCEPT ![r] = "idle"]
    /\ rlNow' = [rlNow EXCEPT ![r] = 0]
    /\ rlSnap' = [rlSnap EXCEPT ![r] = NoBucket]
    /\ UNCHANGED <<timeVars, notRL>>

\* what the middleware sends for the script's result: 429 when the script
\* answered 0, nothing (0) otherwise, so that the next hook and the proxy run
RateLimitSends(out) == IF out.allowed = 0 THEN 429 ELSE 0

\* a catch that answers as if the script had denied (fail closed)
RLEvalFailsClosed(r) ==
    /\ rlPc[r] = "called"
    /\ rlPc' = [rlPc EXCEPT ![r] = "idle"]
    /\ rlOut' = [rlOut EXCEPT ![r] = [allowed |-> 0, tokens |-> 0]]
    /\ rlNow' = [rlNow EXCEPT ![r] = 0]
    /\ UNCHANGED <<rlBucket, rlExpireAt, redisBusy, rlSnap,
                   nReq, nAllowed, tFirst, tLast, refillLost, deniedEarly>>
    /\ UNCHANGED <<timeVars, notRL>>
\* catch (error): the call to Redis failed; the request is let through and
\* the bucket is left as it was (fail open)
RLEvalFails(r) ==
    /\ rlPc[r] = "called"
    /\ rlPc' = [rlPc EXCEPT ![r] = "idle"]
    /\ rlOut' = [rlOut EXCEPT ![r] = NoOut]
    /\ rlNow' = [rlNow EXCEPT ![r] = 0]
    /\ UNCHANGED <<rlBucket, rlExpireAt, redisBusy, rlSnap,
                   nReq, nAllowed, tFirst, tLast, refillLost, deniedEarly>>
    /\ UNCHANGED <<timeVars, notRL>>

----------------------------------------------------------------------------
(* Redis keys of the scoring engine *)

Leaderboards == {"L1"}

\* Tenant contexts.  KeyContext is the creation context of API key K: the
\* project of its api_keys row and the tenant of that project.  OtherContext
\* is the context of another tenant's key.
KeyContext == [tenantId |-> "T1", projectId |-> "P1"]
OtherContext == [tenantId |-> "T2", projectId |-> "P2"]
NoContext == [tenantId |-> "", projectId |-> ""]
Contexts == {KeyContext, OtherContext}

\* `l:${tenantId}:${projectId}:${leaderboardId}` and
\* `l:meta:${tenantId}:${projectId}:${leaderboardId}`, as their segments
ScoreKey(x, l) == <<"l", x.tenantId, x.projectId, l>>
MetaKey(x, l) == <<"l", "meta", x.tenantId, x.projectId, l>>
ScoreKeys == {ScoreKey(x, l) : x \in Contexts, l \in Leaderboards}
MetaKeys == {MetaKey(x, l) : x \in Contexts, l \in Leaderboards}
UserOrder == <<"alice">>                     \* members, in lexicographic order
Users == {UserOrder[i] : i \in 1..Len(UserOrder)}
UserIdx(u) == CHOOSE i \in 1..Len(UserOrder) : UserOrder[i] = u
\* every member a sorted set of the model may hold, in lexicographic order
\* (Redis orders members of equal score by their bytes)
MemberOrder == <<"alice", "bob", "carol">>
Members == {MemberOrder[i] : i \in 1..Len(MemberOrder)}
MemberIdx(u) == CHOOSE i \in 1..Len(MemberOrder) : MemberOrder[i] = u
ClientOrder == <<"c1", "c2">>
Clients == {ClientOrder[i] : i \in 1..Len(ClientOrder)}
ClientIdx(c) == CHOOSE i \in 1..Len(ClientOrder) : ClientOrder[i] = c
ScoreValues == {30, 50, 80}
TtlChoices == {0, 1}

\* EventSubjects
Subjects == {"score.updated", "leaderboard.created", "leaderboard.deleted"}

\* ttlSeconds = ttlDays * 24 * 60 * 60, in ms
MsPerDay == 24 * 60 * 60 * MsPerSecond

NoEntry == [has |-> FALSE, v |-> 0]
Entry(s) == [has |-> TRUE, v |-> s]
NoTTL == [armed |-> FALSE, at |-> 0]
EmptyZ == [u \in Users |-> NoEntry]
\* a metadata hash: the fields it holds, the values UpdateScore reads, and the
\* expiry of the key itself
EmptyMeta == [fields |-> {}, ttlDays |-> 0, updateMode |-> "", sortOrder |-> "",
              expire |-> NoTTL]
NoRow == [state |-> "none", sortOrder |-> "", updateMode |-> "", ttlDays |-> 0]

\* The sorted set as Redis shows it: gone once its time to live has passed
ZLive(l) == ~zTTL[l].armed \/ clock < zTTL[l].at
ZStored(l) == IF ZLive(l) THEN zset[l] ELSE [u \in DOMAIN zset[l] |-> NoEntry]
ZTTLNow(l) == IF ZLive(l) THEN zTTL[l] ELSE NoTTL
ZExists(l) == \E u \in DOMAIN zset[l] : ZStored(l)[u].has

\* ZADD key score member / ZINCRBY: the member's entry becomes e
ZPut(l, u, e) ==
    /\ zset' = [zset EXCEPT ![l] = [ZStored(l) EXCEPT ![u] = e]]
    /\ zTTL' = [zTTL EXCEPT ![l] = ZTTLNow(l)]

\* ZADD in place of ZINCRBY: the increment replaces the stored score
ZIncrByAsSet(old, s) == s
\* ZINCRBY key increment member: one command adds to the stored score, or
\* to 0 when the member has none
ZIncrBy(old, s) == (IF old.has THEN old.v ELSE 0) + s

\* ZREVRANK / ZRANK (0-based; ties in member order)
ZRevRank(z, u) ==
    Cardinality({v \in DOMAIN z : z[v].has /\
        (z[v].v > z[u].v \/ (z[v].v = z[u].v /\ MemberIdx(v) > MemberIdx(u)))})
ZRank(z, u) ==
    Cardinality({v \in DOMAIN z : z[v].has /\
        (z[v].v < z[u].v \/ (z[v].v = z[u].v /\ MemberIdx(v) < MemberIdx(u)))})

\* History flag raised when the clock reaching t lets a score key lapse
KeysLapsing(t) ==
    IF \E l \in ScoreKeys :
          zTTL[l].armed /\ clock < zTTL[l].at /\ t >= zTTL[l].at /\ ZExists(l)
    THEN {"expired"} ELSE {}

----------------------------------------------------------------------------
(* Event bus: publishEvent / subscribeToEvents over core NATS *)

\* client.publish(subject, encoded): the message reaches the worker's
\* subscription, or the publication fails and is only logged
Publish(subject, msg, sent) ==
    IF sent
    THEN /\ queue' = [queue EXCEPT ![subject] = Append(@, msg)]
         /\ nPublished' = [nPublished EXCEPT ![subject] = @ + 1]
         /\ UNCHANGED nPubFailed
    ELSE /\ nPubFailed' = nPubFailed + 1
         /\ UNCHANGED <<queue, nPublished>>

\* await publishEvent(...) with no catch: a failed publication throws
PublishThrowsUncaught(sent) == ~sent
\* publishScoreEvent: publishEvent(...).catch(console.error), not awaited; a
\* failed publication never reaches the handler
PublishThrows(sent) == FALSE

----------------------------------------------------------------------------
(* Scoring engine: POST /update *)

IdleUS == [pc |-> "idle", ctx |-> NoContext, lb |-> "", user |-> "", score |-> 0,
           increment |-> FALSE,
           ttlDays |-> 0, updateMode |-> "", sortOrder |-> "",
           current |-> NoEntry, final |-> NoEntry,
           status |-> 0, replyRank |-> 0]

\* const redisKey = ..., const metadataKey = ...
\* the same key for every tenant: `l:${leaderboardId}` under one fixed prefix
USScoreKeyShared(r) == ScoreKey(KeyContext, r.lb)
USScoreKey(r) == ScoreKey(r.ctx, r.lb)
USMetaKey(r) == MetaKey(r.ctx, r.lb)

InFlight(c) == us[c].pc # "idle"

\* The clients are interchangeable: of the idle ones, the first takes the
\* next request
NextClient(c) ==
    /\ ~InFlight(c)
    /\ \A d \in Clients : (~InFlight(d)) => ClientIdx(c) <= ClientIdx(d)

\* metadata?.ttlDays ? parseInt(metadata.ttlDays) : 0
MetaTtlDays(m) == IF "ttlDays" \in m.fields THEN m.ttlDays ELSE 0
\* metadata?.updateMode || 'replace'
MetaUpdateMode(m) == IF "updateMode" \in m.fields THEN m.updateMode ELSE "replace"
\* metadata?.sortOrder || 'desc'
MetaSortOrder(m) == IF "sortOrder" \in m.fields THEN m.sortOrder ELSE "desc"

\* every update adding to the stored score
IncrementingAlways(r) == TRUE
\* updateMode === 'increment' || increment
Incrementing(r) == r.updateMode = "increment" \/ r.increment

ShouldUpdateAlways(sortOrder, score, current) == TRUE
\* sortOrder === 'desc' ? score > current : score < current
ShouldUpdate(sortOrder, score, current) ==
    IF sortOrder = "desc" THEN score > current ELSE score < current

\* the request arrives with its tenant context
USStart(c, x, l, u, s, inc) ==
    /\ NextClient(c)
    /\ nUpdates < MaxUpdates
    /\ nUpdates' = nUpdates + 1
    /\ us' = [us EXCEPT ![c] = [IdleUS EXCEPT !.pc = "meta", !.ctx = x, !.lb = l,
                                              !.user = u,
                                              !.score = s, !.increment = inc]]
    /\ flags' = flags
          \cup (IF \E d \in Clients : d # c /\ InFlight(d) /\ us[d].ctx = x /\ us[d].lb = l
                                       /\ us[d].user = u
                THEN {"overlap"} ELSE {})
          \cup (IF lbRow[l].state = "deleted" THEN {"lateUpdate"} ELSE {})
    /\ UNCHANGED <<lbRow, meta, zset, zTTL, queue, scoreEvents,
                   nPublished, nPubFailed, nHandled, written>>
    /\ UNCHANGED <<timeVars, notSC>>

\* if (!tenantId || !projectId) return reply.code(400)
USNoContext(c) ==
    /\ NextClient(c)
    /\ nUpdates < MaxUpdates
    /\ nUpdates' = nUpdates + 1
    /\ us' = [us EXCEPT ![c] = [IdleUS EXCEPT !.status = 400]]
    /\ UNCHANGED <<lbRow, meta, zset, zTTL, queue, scoreEvents,
                   nPublished, nPubFailed, nHandled, written, flags>>
    /\ UNCHANGED <<timeVars, notSC>>

\* const metadata = await redis.hgetall(metadataKey)
USReadMeta(c) ==
    /\ us[c].pc = "meta"
    /\ LET m == meta[USMetaKey(us[c])]
           r == [us[c] EXCEPT !.ttlDays = MetaTtlDays(m),
                              !.updateMode = MetaUpdateMode(m),
                              !.sortOrder = MetaSortOrder(m)]
       IN us' = [us EXCEPT ![c] =
                    [r EXCEPT !.pc = IF ~Incrementing(r) /\ r.updateMode = "best"
                                     THEN "bestRead" ELSE "apply"]]
    /\ UNCHANGED <<lbRow, meta, zset, zTTL, queue, scoreEvents, nUpdates,
                   nPublished, nPubFailed, nHandled, written, flags>>
    /\ UNCHANGED <<timeVars, notSC>>

\* const currentScore = await redis.zscore(redisKey, userId)
USBestRead(c) ==
    /\ us[c].pc = "bestRead"
    /\ us' = [us EXCEPT ![c].current = ZStored(USScoreKey(us[c]))[us[c].user],
                        ![c].pc = "apply"]
    /\ UNCHANGED <<lbRow, meta, zset, zTTL, queue, scoreEvents, nUpdates,
                   nPublished, nPubFailed, nHandled, written, flags>>
    /\ UNCHANGED <<timeVars, notSC>>

\* zincrby / zadd according to the update mode
USApply(c) ==
    /\ us[c].pc = "apply"
    /\ LET r == us[c]
           old == ZStored(USScoreKey(r))[r.user]
       IN /\ IF Incrementing(r)
             THEN ZPut(USScoreKey(r), r.user, Entry(ZIncrBy(old, r.score)))
             ELSE IF r.updateMode = "best"
             THEN IF ~r.current.has \/ ShouldUpdate(r.sortOrder, r.score, r.current.v)
                  THEN ZPut(USScoreKey(r), r.user, Entry(r.score))
                  ELSE UNCHANGED <<zset, zTTL>>
             ELSE ZPut(USScoreKey(r), r.user, Entry(r.score))
          /\ written' = IF Incrementing(r) THEN written
                        ELSE [written EXCEPT ![r.lb][r.user] = @ \cup {r.score}]
          /\ flags' = IF Incrementing(r) THEN flags \cup {"incremented"} ELSE flags
          /\ us' = [us EXCEPT ![c].pc = IF r.ttlDays > 0 THEN "expire" ELSE "readScore"]
    /\ UNCHANGED <<lbRow, meta, queue, scoreEvents, nUpdates, nPublished, nPubFailed, nHandled>>
    /\ UNCHANGED <<timeVars, notSC>>

\* await redis.expire(redisKey, ttlDays * 24 * 60 * 60)
USExpire(c) ==
    /\ us[c].pc = "expire"
    /\ LET l == USScoreKey(us[c])
       IN /\ zTTL' = [zTTL EXCEPT ![l] =
                         IF ZExists(l)
                         THEN [armed |-> TRUE, at |-> clock + us[c].ttlDays * MsPerDay]
                         ELSE NoTTL]
          /\ zset' = [zset EXCEPT ![l] = ZStored(l)]
    /\ us' = [us EXCEPT ![c].pc = "readScore"]
    /\ UNCHANGED <<lbRow, meta, queue, scoreEvents, nUpdates,
                   nPublished, nPubFailed, nHandled, written, flags>>
    /\ UNCHANGED <<timeVars, notSC>>

\* const finalScore = await redis.zscore(redisKey, userId)
USReadScore(c) ==
    /\ us[c].pc = "readScore"
    /\ us' = [us EXCEPT ![c].final = ZStored(USScoreKey(us[c]))[us[c].user],
                        ![c].pc = "readRank"]
    /\ UNCHANGED <<lbRow, meta, zset, zTTL, queue, scoreEvents, nUpdates,
                   nPublished, nPubFailed, nHandled, written, flags>>
    /\ UNCHANGED <<timeVars, notSC>>

\* score: parseFloat(finalScore || '0')
FinalScore(r) == IF r.final.has THEN r.final.v ELSE 0

\* the score.updated event the /update handler publishes
\* (submitted: what the request asked for, kept for the record)
UpdateEvent(r) ==
    [ctx |-> r.ctx, lb |-> r.lb, user |-> r.user, score |-> FinalScore(r),
     increment |-> r.increment, submitted |-> r.score]

\* zrevrank / zrank, publishScoreEvent, reply.send
USReadRankReply(c, sent) ==
    /\ us[c].pc = "readRank"
    /\ LET r == us[c]
           z == ZStored(USScoreKey(r))
           rank == IF ~z[r.user].has THEN 0
                   ELSE IF r.sortOrder = "desc" THEN ZRevRank(z, r.user) + 1
                   ELSE ZRank(z, r.user) + 1
       IN /\ Publish("score.updated", UpdateEvent(r), sent)
          /\ us' = [us EXCEPT ![c] =
                       IF PublishThrows(sent)
                       THEN [IdleUS EXCEPT !.status = 500]
                       ELSE [IdleUS EXCEPT !.status = 200, !.replyRank = rank]]
    /\ UNCHANGED <<lbRow, meta, zset, zTTL, scoreEvents, nUpdates, nHandled, written, flags>>
    /\ UNCHANGED <<timeVars, notSC>>

\* catch (error): a Redis command failed; reply 500, nothing is published
USRedisError(c) ==
    /\ InFlight(c)
    /\ us' = [us EXCEPT ![c] = [IdleUS EXCEPT !.status = 500]]
    /\ UNCHANGED <<lbRow, meta, zset, zTTL, queue, scoreEvents, nUpdates,
                   nPublished, nPubFailed, nHandled, written, flags>>
    /\ UNCHANGED <<timeVars, notSC>>

----------------------------------------------------------------------------
(* Worker: the three subscriptions and their handlers *)

\* for await (const msg of sub) { try { await handler(data) } catch { log } }
\* The message is taken off the subscription whether the handler returns or
\* throws; a thrown error is logged.
Taken(subject, ok) ==
    /\ queue[subject] # <<>>
    /\ queue' = [queue EXCEPT ![subject] = Tail(@)]
    /\ nHandled' = IF ok THEN [nHandled EXCEPT ![subject] = @ + 1] ELSE nHandled
    /\ UNCHANGED flags

\* scoreUpdatedHandler: INSERT INTO score_events
HandleScoreUpdated(ok) ==
    /\ Taken("score.updated", ok)
    /\ LET m == Head(queue["score.updated"])
       IN scoreEvents' =
             IF ok THEN Append(scoreEvents, [ctx |-> m.ctx, lb |-> m.lb, user |-> m.user,
                                             score |-> m.score, increment |-> m.increment])
             ELSE scoreEvents
    /\ UNCHANGED <<lbRow, meta, zset, zTTL, us, nUpdates, nPublished, nPubFailed, written>>
    /\ UNCHANGED <<timeVars, notSC>>

\* the fields redis.hset writes into the metadata hash
CreatedFields == {"name", "projectId", "tenantId", "createdAt", "ttlDays"}

\* HINCRBY in place of HSET: the event's ttlDays is added to the one held
HSetCreatedAdding(h, m) ==
    [h EXCEPT !.fields = @ \cup CreatedFields, !.ttlDays = @ + m.ttlDays]
\* HSET followed by an EXPIRE of the metadata key for the scores' time to live
HSetCreatedExpiring(h, m) ==
    [h EXCEPT !.fields = @ \cup CreatedFields, !.ttlDays = m.ttlDays,
              !.expire = IF m.ttlDays > 0
                         THEN [armed |-> TRUE, at |-> clock + m.ttlDays * MsPerDay]
                         ELSE @]
\* redis.hset(metadataKey, {name, projectId, tenantId, createdAt, ttlDays}):
\* the five fields are set, other fields of the hash stay
HSetCreated(h, m) ==
    [h EXCEPT !.fields = @ \cup CreatedFields, !.ttlDays = m.ttlDays]

\* leaderboardCreatedHandler: HSET l:meta:{t}:{p}:{l}
HandleLeaderboardCreated(ok) ==
    /\ Taken("leaderboard.created", ok)
    /\ LET m == Head(queue["leaderboard.created"])
       IN meta' =
             IF ok THEN [meta EXCEPT ![MetaKey(m.ctx, m.lb)] = HSetCreated(@, m)]
             ELSE meta
    /\ UNCHANGED <<lbRow, zset, zTTL, us, scoreEvents, nUpdates, nPublished, nPubFailed, written>>
    /\ UNCHANGED <<timeVars, notSC>>

\* leaderboardDeletedHandler: DEL scoreKey metadataKey
HandleLeaderboardDeleted(ok) ==
    /\ Taken("leaderboard.deleted", ok)
    /\ LET m == Head(queue["leaderboard.deleted"])
       IN IF ok
          THEN /\ meta' = [meta EXCEPT ![MetaKey(m.ctx, m.lb)] = EmptyMeta]
               /\ zset' = [zset EXCEPT ![ScoreKey(m.ctx, m.lb)] =
                                [u \in DOMAIN @ |-> NoEntry]]
               /\ zTTL' = [zTTL EXCEPT ![ScoreKey(m.ctx, m.lb)] = NoTTL]
          ELSE UNCHANGED <<meta, zset, zTTL>>
    /\ UNCHANGED <<lbRow, us, scoreEvents, nUpdates, nPublished, nPubFailed, written>>
    /\ UNCHANGED <<timeVars, notSC>>

\* The broker delivers a message again (at-least-once delivery): the message
\* at the head of the subscription is handled twice.  Replays(s) counts the
\* deliveries of subject s beyond its publications.
MaxReplays == 1
Replays(subject) == nHandled[subject] + Len(queue[subject]) - nPublished[subject]
Redeliver(subject) ==
    /\ queue[subject] # <<>>
    /\ Replays(subject) < MaxReplays
    /\ queue' = [queue EXCEPT ![subject] = <<Head(@)>> \o @]
    /\ UNCHANGED <<lbRow, meta, zset, zTTL, us, scoreEvents, nUpdates, nPublished,
                   nPubFailed, nHandled, written, flags>>
    /\ UNCHANGED <<timeVars, notSC>>

----------------------------------------------------------------------------
(* Leaderboard control: POST /leaderboards, DELETE /leaderboards/:id *)

\* INSERT INTO leaderboards ... ; publish leaderboard.created
CreateLeaderboard(l, so, um, ttl, sent) ==
    /\ lbRow[l].state = "none"
    /\ lbRow' = [lbRow EXCEPT ![l] = [state |-> "active", sortOrder |-> so,
                                      updateMode |-> um, ttlDays |-> ttl]]
    /\ Publish("leaderboard.created",
               [ctx |-> KeyContext, lb |-> l, sortOrder |-> so, updateMode |-> um,
                ttlDays |-> ttl], sent)
    /\ UNCHANGED <<meta, zset, zTTL, us, scoreEvents, nUpdates, nHandled, written, flags>>
    /\ UNCHANGED <<timeVars, notSC>>

\* DELETE FROM leaderboards WHERE id = ... ; publish leaderboard.deleted
DeleteLeaderboard(l, sent) ==
    /\ lbRow[l].state = "active"
    /\ lbRow' = [lbRow EXCEPT ![l].state = "deleted"]
    /\ Publish("leaderboard.deleted", [ctx |-> KeyContext, lb |-> l], sent)
    /\ flags' = flags
          \cup (IF \E c \in Clients : InFlight(c) /\ us[c].lb = l
                THEN {"lateUpdate"} ELSE {})
    /\ UNCHANGED <<meta, zset, zTTL, us, scoreEvents, nUpdates, nHandled, written>>
    /\ UNCHANGED <<timeVars, notSC>>

InitSC(m) ==
    /\ lbRow = [l \in Leaderboards |-> NoRow]
    /\ meta = [k \in MetaKeys |-> m]
    /\ zset = [k \in ScoreKeys |-> EmptyZ]
    /\ zTTL = [k \in ScoreKeys |-> NoTTL]
    /\ us = [c \in Clients |-> IdleUS]
    /\ queue = [s \in Subjects |-> <<>>]
    /\ scoreEvents = <<>>
    /\ nUpdates = 0
    /\ nPublished = [s \in Subjects |-> 0]
    /\ nPubFailed = 0
    /\ nHandled = [s \in Subjects |-> 0]
    /\ written = [l \in Leaderboards |-> [u \in Users |-> {}]]
    /\ flags = {}

----------------------------------------------------------------------------
(* Gateway authentication: authMiddleware, POST /validate, key revocation *)

MaxAuthRequests == 3
CACHE_TTL == 300

GatewayOrder == <<"g1", "g2">>
Gateways == {GatewayOrder[i] : i \in DOMAIN GatewayOrder}
GatewayIdx(g) == CHOOSE i \in DOMAIN GatewayOrder : GatewayOrder[i] = g

\* Time steps around a validation: a validation that takes two seconds, and
\* a wait just short of the cache's time to live.
AuthTickSteps == {2 * MsPerSecond, (CACHE_TTL - 1) * MsPerSecond}

\* generateApiKey(): the plaintext of key K, shown once to its creator
KeyK == "ak_K"
\* The forms in which a key is written somewhere.  hashApiKey(k) is a bcrypt
\* hash, from which k cannot be read back; a template string that embeds k
\* holds k as it is.
Hashed(k) == [form |-> "bcrypt", of |-> k]
Verbatim(k) == [form |-> "plain", of |-> k]
NoText == [form |-> "none", of |-> ""]
\* const cacheKey = `auth:${apiKey}`
AuthCacheKey(k) == [prefix |-> "auth:", body |-> Verbatim(k)]
NoCacheKey == [prefix |-> "", body |-> NoText]

\* the X-Tenant-Id / X-Project-Id headers a client may send itself
ClientHeaders == {NoContext, KeyContext, OtherContext}

LiveKey == [revoked |-> FALSE, at |-> 0, keyHash |-> Hashed(KeyK)]
NoAuthCache == [has |-> FALSE, expireAt |-> 0, key |-> NoCacheKey, value |-> NoContext]
\* hdr: the context headers of the request as they stand (the client's, until
\* the middleware overwrites them); forwarded: the request went on to the proxy
IdleGW == [pc |-> "idle", arrived |-> 0, snap |-> FALSE, status |-> 0,
           hdr |-> NoContext, forwarded |-> FALSE]

\* redis.get(cacheKey) finds the entry until its time to live has run out
AuthCached == authCache.has /\ clock < authCache.expireAt

\* The gateway requests are interchangeable: of the idle ones, the first
\* takes the next request
NextGateway(g) ==
    /\ gw[g].pc = "idle"
    /\ \A h \in Gateways : gw[h].pc = "idle" => GatewayIdx(g) <= GatewayIdx(h)

\* a request for a protected route presenting key K in X-Api-Key, with the
\* context headers h of the client's choosing, reaches the middleware
AuthStart(g, h) ==
    /\ NextGateway(g)
    /\ nAuth < MaxAuthRequests
    /\ nAuth' = nAuth + 1
    /\ gw' = [gw EXCEPT ![g] = [IdleGW EXCEPT !.pc = "cacheGet", !.arrived = clock,
                                              !.hdr = h]]
    /\ UNCHANGED <<apiKey, authCache>>
    /\ UNCHANGED <<timeVars, notAuth>>

\* if (!apiKey) return reply.code(401)
AuthMissingKey(g) ==
    /\ NextGateway(g)
    /\ nAuth < MaxAuthRequests
    /\ nAuth' = nAuth + 1
    /\ gw' = [gw EXCEPT ![g] = [IdleGW EXCEPT !.arrived = clock, !.status = 401]]
    /\ UNCHANGED <<apiKey, authCache>>
    /\ UNCHANGED <<timeVars, notAuth>>

\* if (request.url.startsWith('/auth')) return: a request for an /auth route
\* goes on to the proxy as it came, whatever key it presents
AuthSkipped(g, h) ==
    /\ NextGateway(g)
    /\ nAuth < MaxAuthRequests
    /\ nAuth' = nAuth + 1
    /\ gw' = [gw EXCEPT ![g] = [IdleGW EXCEPT !.arrived = clock, !.hdr = h,
                                              !.forwarded = TRUE]]
    /\ UNCHANGED <<apiKey, authCache>>
    /\ UNCHANGED <<timeVars, notAuth>>

\* request.headers['x-tenant-id'] = validation.tenantId, and x-project-id
\* likewise; the request goes on to the proxy
Authenticated(r, validation) ==
    [r EXCEPT !.pc = "idle", !.status = 200, !.hdr = validation,
              !.forwarded = TRUE]

\* const cached = await redis.get(cacheKey); a hit authenticates the request
AuthCacheGet(g) ==
    /\ gw[g].pc = "cacheGet"
    /\ gw' = [gw EXCEPT ![g] = IF AuthCached
                                THEN Authenticated(@, authCache.value)
                                ELSE [@ EXCEPT !.pc = "validate"]]
    /\ UNCHANGED <<apiKey, authCache, nAuth>>
    /\ UNCHANGED <<timeVars, notAuth>>

\* POST /validate: SELECT ... FROM api_keys reads the rows, revoked_at included
ValidateSelect(g) ==
    /\ gw[g].pc = "validate"
    /\ gw' = [gw EXCEPT ![g].pc = "verify", ![g].snap = ~apiKey.revoked]
    /\ UNCHANGED <<apiKey, authCache, nAuth>>
    /\ UNCHANGED <<timeVars, notAuth>>

ValidateReturnCachesInvalid(g) ==
    /\ gw[g].pc = "verify"
    /\ gw' = [gw EXCEPT ![g] = [@ EXCEPT !.pc = "setex"]]
    /\ UNCHANGED <<apiKey, authCache, nAuth>>
    /\ UNCHANGED <<timeVars, notAuth>>

\* the loop over the rows read: if (key.revokedAt) continue; await
\* verifyApiKey(...); the reply is { valid } and the gateway answers 401 when
\* it is not valid
ValidateReturn(g) ==
    /\ gw[g].pc = "verify"
    /\ gw' = [gw EXCEPT ![g] = IF gw[g].snap
                                THEN [@ EXCEPT !.pc = "setex"]
                                ELSE [@ EXCEPT !.pc = "idle", !.status = 401]]
    /\ UNCHANGED <<apiKey, authCache, nAuth>>
    /\ UNCHANGED <<timeVars, notAuth>>

\* the auth service answers with an error status: if (!response.ok) 401
ValidateFails(g) ==
    /\ gw[g].pc \in {"validate", "verify"}
    /\ gw' = [gw EXCEPT ![g] = [@ EXCEPT !.pc = "idle", !.status = 401]]
    /\ UNCHANGED <<apiKey, authCache, nAuth>>
    /\ UNCHANGED <<timeVars, notAuth>>

\* await redis.setex(cacheKey, CACHE_TTL, ...); the request is authenticated
AuthSetex(g) ==
    /\ gw[g].pc = "setex"
    /\ authCache' = [has |-> TRUE, expireAt |-> clock + CACHE_TTL * MsPerSecond,
                     key |-> AuthCacheKey(KeyK), value |-> KeyContext]
    /\ gw' = [gw EXCEPT ![g] = Authenticated(@, KeyContext)]
    /\ UNCHANGED <<apiKey, nAuth>>
    /\ UNCHANGED <<timeVars, notAuth>>

\* catch (error): Redis or the fetch threw; reply 503
AuthCatch(g) ==
    /\ gw[g].pc # "idle"
    /\ gw' = [gw EXCEPT ![g] = [@ EXCEPT !.pc = "idle", !.status = 503]]
    /\ UNCHANGED <<apiKey, authCache, nAuth>>
    /\ UNCHANGED <<timeVars, notAuth>>

\* DELETE /api-keys/:id of key K: UPDATE api_keys SET revoked_at = NOW().
\* Nothing else is written: the cache entry auth:K stays.
RevokeKey ==
    /\ apiKey' = [apiKey EXCEPT !.revoked = TRUE, !.at = clock]
    /\ UNCHANGED <<authCache, gw, nAuth>>
    /\ UNCHANGED <<timeVars, notAuth>>

InitAuth ==
    /\ apiKey = LiveKey
    /\ authCache = NoAuthCache
    /\ gw = [g \in Gateways |-> IdleGW]
    /\ nAuth = 0

----------------------------------------------------------------------------
(* Administration: POST /subscriptions, POST /api-keys/:id/rotate *)

MaxAdminCalls == 3

AdminOrder == <<"a1", "a2">>
Admins == {AdminOrder[i] : i \in DOMAIN AdminOrder}
AdminIdx(a) == CHOOSE i \in DOMAIN AdminOrder : AdminOrder[i] = a

IdleCall == [pc |-> "idle", status |-> 0]

\* The callers are interchangeable: of those serving nothing, the first takes
\* the next request
NextAdmin(a) ==
    /\ cs[a].pc = "idle" /\ rot[a].pc = "idle"
    /\ \A b \in Admins :
          (cs[b].pc = "idle" /\ rot[b].pc = "idle") => AdminIdx(a) <= AdminIdx(b)

\* POST /subscriptions for tenant T arrives
CSStart(a) ==
    /\ NextAdmin(a)
    /\ nAdmin < MaxAdminCalls
    /\ nAdmin' = nAdmin + 1
    /\ cs' = [cs EXCEPT ![a] = [IdleCall EXCEPT !.pc = "select"]]
    /\ UNCHANGED <<subs, rot, newKeys>>
    /\ UNCHANGED <<timeVars, notAdmin>>

\* SELECT * FROM subscriptions WHERE tenant_id = ... AND status = 'active';
\* if (existing) return 400
CSSelect(a) ==
    /\ cs[a].pc = "select"
    /\ cs' = [cs EXCEPT ![a] = IF subs > 0
                                THEN [IdleCall EXCEPT !.status = 400]
                                ELSE [@ EXCEPT !.pc = "insert"]]
    /\ UNCHANGED <<subs, rot, newKeys, nAdmin>>
    /\ UNCHANGED <<timeVars, notAdmin>>

\* INSERT INTO subscriptions (..., 'active', ...); reply 201
CSInsert(a) ==
    /\ cs[a].pc = "insert"
    /\ subs' = subs + 1
    /\ cs' = [cs EXCEPT ![a] = [IdleCall EXCEPT !.status = 201]]
    /\ UNCHANGED <<rot, newKeys, nAdmin>>
    /\ UNCHANGED <<timeVars, notAdmin>>

\* catch (error): a statement failed; reply 500
CSDbError(a) ==
    /\ cs[a].pc # "idle"
    /\ cs' = [cs EXCEPT ![a] = [IdleCall EXCEPT !.status = 500]]
    /\ UNCHANGED <<subs, rot, newKeys, nAdmin>>
    /\ UNCHANGED <<timeVars, notAdmin>>

\* POST /api-keys/:id/rotate for the id of key K arrives
RotStart(a) ==
    /\ NextAdmin(a)
    /\ nAdmin < MaxAdminCalls
    /\ nAdmin' = nAdmin + 1
    /\ rot' = [rot EXCEPT ![a] = [IdleCall EXCEPT !.pc = "select"]]
    /\ UNCHANGED <<subs, cs, newKeys>>
    /\ UNCHANGED <<timeVars, notAdmin>>

\* SELECT * FROM api_keys WHERE id = ... AND revoked_at IS NULL;
\* if (!existing) return 404; then generateApiKey, await hashApiKey
RotSelect(a) ==
    /\ rot[a].pc = "select"
    /\ rot' = [rot EXCEPT ![a] = IF apiKey.revoked
                                  THEN [IdleCall EXCEPT !.status = 404]
                                  ELSE [@ EXCEPT !.pc = "update"]]
    /\ UNCHANGED <<subs, cs, newKeys, nAdmin>>
    /\ UNCHANGED <<timeVars, notAdmin>>

\* UPDATE api_keys SET revoked_at = NOW() WHERE id = ...
RotUpdate(a) ==
    /\ rot[a].pc = "update"
    /\ apiKey' = [apiKey EXCEPT !.revoked = TRUE, !.at = clock]
    /\ rot' = [rot EXCEPT ![a].pc = "insert"]
    /\ UNCHANGED <<subs, cs, newKeys, nAdmin>>
    /\ UNCHANGED <<authCache, gw, nAuth>>
    /\ UNCHANGED <<timeVars, rlVars, scVars, queryVars, batchVars, usageVars,
                   billingVars, ctlVars, procVars>>

\* INSERT INTO api_keys (project_id, name, key_hash) ...; reply 200 with the
\* new key
RotInsert(a) ==
    /\ rot[a].pc = "insert"
    /\ newKeys' = newKeys + 1
    /\ rot' = [rot EXCEPT ![a] = [IdleCall EXCEPT !.status = 200]]
    /\ UNCHANGED <<subs, cs, nAdmin>>
    /\ UNCHANGED <<timeVars, notAdmin>>

\* a statement of the rotate handler throws (no try / catch, no transaction):
\* the framework replies 500 and what was written stays
RotDbError(a) ==
    /\ rot[a].pc # "idle"
    /\ rot' = [rot EXCEPT ![a] = [IdleCall EXCEPT !.status = 500]]
    /\ UNCHANGED <<subs, cs, newKeys, nAdmin>>
    /\ UNCHANGED <<timeVars, notAdmin>>

InitAdmin ==
    /\ subs = 0
    /\ cs = [a \in Admins |-> IdleCall]
    /\ rot = [a \in Admins |-> IdleCall]
    /\ newKeys = 0
    /\ nAdmin = 0

----------------------------------------------------------------------------
(* Scoring engine: POST /batch-update *)

MaxBatchLen == 2
BatchScores == {30, 50}
BatchUpdates ==
    [lb : Leaderboards, user : Users, score : BatchScores, increment : BOOLEAN]
Batches == UNION {[1..n -> BatchUpdates] : n \in 1..MaxBatchLen}

\* new Map(): no key yet; map.set(key, value)
EmptyMap == [k \in {} |-> 0]
MapSet(map, key, value) == (key :> value) @@ map
\* leaderboardMetadata is keyed by leaderboard id, currentScores by
\* `${leaderboardId}:${userId}`
IdleBU == [pc |-> "idle", ctx |-> NoContext, updates |-> <<>>,
           lbMeta |-> EmptyMap,
           currentScores |-> EmptyMap,
           i |-> 0, pipeline |-> <<>>, results |-> <<>>,
           status |-> 0, processed |-> 0]

\* POST /batch-update arrives with its tenant context
BUStart(x, ups) ==
    /\ bu.pc = "idle"
    /\ nUpdates < MaxUpdates
    /\ nUpdates' = nUpdates + 1
    /\ bu' = [IdleBU EXCEPT !.pc = "meta", !.ctx = x, !.updates = ups]
    /\ UNCHANGED <<lbRow, meta, zset, zTTL, us, queue, scoreEvents,
                   nPublished, nPubFailed, nHandled, written, flags>>
    /\ UNCHANGED <<timeVars, notBatch>>

\* if (!tenantId || !projectId) return reply.code(400)
BUNoContext ==
    /\ bu.pc = "idle"
    /\ nUpdates < MaxUpdates
    /\ nUpdates' = nUpdates + 1
    /\ bu' = [IdleBU EXCEPT !.status = 400]
    /\ UNCHANGED <<lbRow, meta, zset, zTTL, us, queue, scoreEvents,
                   nPublished, nPubFailed, nHandled, written, flags>>
    /\ UNCHANGED <<timeVars, notBatch>>

\* for (const leaderboardId of uniqueLeaderboards): redis.hgetall(metadataKey),
\* in the order the leaderboards first appear in the batch
BUReadMeta ==
    /\ bu.pc = "meta"
    /\ LET todo == {j \in 1..Len(bu.updates) : bu.updates[j].lb \notin DOMAIN bu.lbMeta}
           j == CHOOSE k \in todo : \A m \in todo : k <= m
           l == bu.updates[j].lb
           m == meta[MetaKey(bu.ctx, l)]
           read == MapSet(bu.lbMeta, l,
                          [ttlDays |-> MetaTtlDays(m),
                           updateMode |-> MetaUpdateMode(m),
                           sortOrder |-> MetaSortOrder(m)])
       IN bu' = [bu EXCEPT !.lbMeta = read,
                           !.pc = IF \A k \in todo : bu.updates[k].lb = l
                                  THEN "current" ELSE "meta",
                           !.i = 1]
    /\ UNCHANGED <<timeVars, scVars, notBatch>>

\* for (const update of updates): in best mode, redis.zscore(redisKey, userId);
\* currentScores.set only if the member has a score
BUReadCurrent ==
    /\ bu.pc = "current"
    /\ LET up == bu.updates[bu.i]
           e == ZStored(ScoreKey(bu.ctx, up.lb))[up.user]
           last == bu.i = Len(bu.updates)
       IN bu' = [bu EXCEPT
                   !.currentScores =
                       IF bu.lbMeta[up.lb].updateMode = "best" /\ e.has
                       THEN MapSet(@, <<up.lb, up.user>>, e.v) ELSE @,
                   !.i = IF last THEN 1 ELSE @ + 1,
                   !.pc = IF last THEN "build" ELSE "current"]
    /\ UNCHANGED <<timeVars, scVars, notBatch>>

\* best mode writing whatever score it is given
BUWriteUnchecked(m, cur, key, up) ==
    IF m.updateMode = "increment" \/ up.increment
    THEN <<[op |-> "zincrby", key |-> key, user |-> up.user, v |-> up.score]>>
    ELSE <<[op |-> "zadd", key |-> key, user |-> up.user, v |-> up.score]>>
\* the write one update adds to the pipeline: zincrby, zadd, or in best mode
\* nothing when the score read before is at least as good
BUWrite(m, cur, key, up) ==
    IF m.updateMode = "increment" \/ up.increment
    THEN <<[op |-> "zincrby", key |-> key, user |-> up.user, v |-> up.score]>>
    ELSE IF m.updateMode = "best" /\ cur.has
            /\ ~ShouldUpdate(m.sortOrder, up.score, cur.v)
    THEN <<>>
    ELSE <<[op |-> "zadd", key |-> key, user |-> up.user, v |-> up.score]>>

\* the commands one update adds to the pipeline
BUCommands(b, up) ==
    LET m == b.lbMeta[up.lb]
        key == ScoreKey(b.ctx, up.lb)
        cur == IF <<up.lb, up.user>> \in DOMAIN b.currentScores
               THEN Entry(b.currentScores[<<up.lb, up.user>>]) ELSE NoEntry
        write == BUWrite(m, cur, key, up)
        expire ==
            IF m.ttlDays > 0
            THEN <<[op |-> "expire", key |-> key, user |-> "", v |-> m.ttlDays]>>
            ELSE <<>>
    IN write \o expire

\* the score.updated event of one update of the batch: the submitted score
BatchEvent(b, up) ==
    [ctx |-> b.ctx, lb |-> up.lb, user |-> up.user, score |-> up.score,
     increment |-> up.increment, submitted |-> up.score]

\* one turn of the loop that fills the pipeline: the update's commands,
\* results.push, publishScoreEvent
BUBuild(sent) ==
    /\ bu.pc = "build"
    /\ LET up == bu.updates[bu.i]
           last == bu.i = Len(bu.updates)
       IN /\ Publish("score.updated", BatchEvent(bu, up), sent)
          /\ bu' = IF PublishThrows(sent)
                   THEN [IdleBU EXCEPT !.status = 500]
                   ELSE [bu EXCEPT
                           !.pipeline = @ \o BUCommands(bu, up),
                           !.results = Append(@, [userId |-> up.user,
                                                  leaderboardId |-> up.lb,
                                                  success |-> TRUE]),
                           !.i = IF last THEN 0 ELSE @ + 1,
                           !.pc = IF last THEN "exec" ELSE "build"]
    /\ UNCHANGED <<lbRow, meta, zset, zTTL, us, scoreEvents, nUpdates, nHandled,
                   written, flags>>
    /\ UNCHANGED <<timeVars, notBatch>>

\* await pipeline.exec(): Redis runs the queued commands in order, one by one
BUExec ==
    /\ bu.pc = "exec"
    /\ bu.pipeline # <<>>
    /\ LET cmd == Head(bu.pipeline)
           old == ZStored(cmd.key)[cmd.user]
       IN CASE cmd.op = "zincrby" ->
                 ZPut(cmd.key, cmd.user, Entry(ZIncrBy(old, cmd.v)))
            [] cmd.op = "zadd" ->
                 ZPut(cmd.key, cmd.user, Entry(cmd.v))
            [] cmd.op = "expire" ->
                 /\ zTTL' = [zTTL EXCEPT ![cmd.key] =
                                IF ZExists(cmd.key)
                                THEN [armed |-> TRUE, at |-> clock + cmd.v * MsPerDay]
                                ELSE NoTTL]
                 /\ zset' = [zset EXCEPT ![cmd.key] = ZStored(cmd.key)]
    /\ bu' = [bu EXCEPT !.pipeline = Tail(@)]
    /\ UNCHANGED <<lbRow, meta, us, queue, scoreEvents, nUpdates, nPublished,
                   nPubFailed, nHandled, written, flags>>
    /\ UNCHANGED <<timeVars, notBatch>>

\* reply.send({ success: true, processed: updates.length, results })
BUReply ==
    /\ bu.pc = "exec"
    /\ bu.pipeline = <<>>
    /\ bu' = [IdleBU EXCEPT !.status = 200, !.processed = Len(bu.updates),
                            !.results = bu.results]
    /\ UNCHANGED <<timeVars, scVars, notBatch>>

\* a Redis command fails: the catch around pipeline.exec, or the framework's
\* error handler for the reads before it; reply 500
BURedisError ==
    /\ bu.pc \in {"meta", "current", "exec"}
    /\ bu' = [IdleBU EXCEPT !.status = 500]
    /\ UNCHANGED <<timeVars, scVars, notBatch>>

InitBatch == bu = IdleBU

----------------------------------------------------------------------------
(* Gateway usage tracking: usageMiddleware, getUsageStats *)

MaxTracked == 2

TrackerOrder == <<"r1", "r2">>
Trackers == {TrackerOrder[i] : i \in DOMAIN TrackerOrder}
TrackerIdx(r) == CHOOSE i \in DOMAIN TrackerOrder : TrackerOrder[i] = r
\* reply.statusCode of the responses the hook sees
ResponseCodes == {200, 404}

\* usage:{tenant}:{date} holds requests and hour:{HH}; usage:{tenant}:{project}:{date}
\* holds requests; each key with or without a time to live.  All requests of
\* the model fall in one hour of one day.
NoUsage == [tenantRequests |-> 0, tenantHour |-> 0, tenantExpires |-> FALSE,
            projectRequests |-> 0, projectExpires |-> FALSE]

\* a pipeline that queues HINCRBY requests twice
UsagePipelineCountsTwice ==
    <<"hincrby tenant requests", "expire tenant", "hincrby tenant requests",
      "hincrby project requests", "expire project", "hincrby tenant hour">>
\* the commands queued on the pipeline, in order (projectKey is set: the
\* context of key K has a project)
UsagePipeline ==
    <<"hincrby tenant requests", "expire tenant",
      "hincrby project requests", "expire project", "hincrby tenant hour">>

\* the onResponse hook runs for a response of a request with tenant context
UsageStart(r, code) ==
    /\ usagePipe[r] = <<>>
    /\ \A q \in Trackers : usagePipe[q] = <<>> => TrackerIdx(r) <= TrackerIdx(q)
    /\ nTracked < MaxTracked
    /\ nTracked' = nTracked + 1
    \* if (reply.statusCode < 400 && request.tenantId)
    /\ usagePipe' = [usagePipe EXCEPT ![r] = IF code < 400 THEN UsagePipeline ELSE <<>>]
    /\ UNCHANGED <<usage, stats>>
    /\ UNCHANGED <<timeVars, notUsage>>

\* await pipeline.exec(): redis.pipeline() sends the commands together and
\* Redis runs them in order, one by one, as separate commands
UsageExec(r) ==
    /\ usagePipe[r] # <<>>
    /\ LET cmd == Head(usagePipe[r])
       IN usage' =
            CASE cmd = "hincrby tenant requests" ->
                   [usage EXCEPT !.tenantRequests = @ + 1]
              [] cmd = "expire tenant" ->
                   [usage EXCEPT !.tenantExpires = TRUE]
              [] cmd = "hincrby project requests" ->
                   [usage EXCEPT !.projectRequests = @ + 1]
              [] cmd = "expire project" ->
                   [usage EXCEPT !.projectExpires = TRUE]
              [] cmd = "hincrby tenant hour" ->
                   [usage EXCEPT !.tenantHour = @ + 1]
    /\ usagePipe' = [usagePipe EXCEPT ![r] = Tail(@)]
    /\ UNCHANGED <<stats, nTracked>>
    /\ UNCHANGED <<timeVars, notUsage>>

\* catch (error): the connection to Redis is lost while the pipeline runs; the
\* commands not yet run are dropped and the failure is logged
UsageExecFails(r) ==
    /\ usagePipe[r] # <<>>
    /\ usagePipe' = [usagePipe EXCEPT ![r] = <<>>]
    /\ UNCHANGED <<usage, stats, nTracked>>
    /\ UNCHANGED <<timeVars, notUsage>>

\* getUsageStats: one HGETALL of the tenant-day hash
GetUsageStats ==
    /\ stats' = [read |-> TRUE, totalRequests |-> usage.tenantRequests,
                 hourly |-> usage.tenantHour]
    /\ stats' # stats
    /\ UNCHANGED <<usage, usagePipe, nTracked>>
    /\ UNCHANGED <<timeVars, notUsage>>

InitUsage ==
    /\ usage = NoUsage
    /\ usagePipe = [r \in Trackers |-> <<>>]
    /\ stats = [read |-> FALSE, totalRequests |-> 0, hourly |-> 0]
    /\ nTracked = 0

----------------------------------------------------------------------------
(* Ranking queries: GET /:id/top, GET /:id/rank/:userId *)

MaxQueries == 1
DefaultLimit == 10

\* ZCARD
ZCard(z) == Cardinality({u \in DOMAIN z : z[u].has})
\* ZREVRANGE key start stop WITHSCORES: a negative index counts from the end,
\* and the range is cut to the members there are
ZIndex(i, n) == IF i < 0 THEN n + i ELSE i
ZRevRange(z, start, stop) ==
    LET n == ZCard(z)
        from == Max(0, ZIndex(start, n))
        to == Min(n - 1, ZIndex(stop, n))
    IN [j \in 1..Max(0, to - from + 1) |->
           LET u == CHOOSE v \in DOMAIN z : z[v].has /\ ZRevRank(z, v) = from + j - 1
           IN [userId |-> u, score |-> z[u].v]]

NoNeighbors == [has |-> FALSE, above |-> <<>>, below |-> <<>>]
IdleTQ == [pc |-> "idle", ctx |-> NoContext, lb |-> "", limit |-> 0, offset |-> 0,
           results |-> <<>>, entries |-> <<>>, total |-> 0, status |-> 0,
           userId |-> "", withNeighbors |-> FALSE, neighborCount |-> 0,
           score |-> NoEntry, rank |-> NoEntry, above |-> <<>>,
           neighbors |-> NoNeighbors]

\* const redisKey = `l:${tenantId}:${projectId}:${id}`
TopKey(q) == ScoreKey(q.ctx, q.lb)

\* GET /:id/top arrives with its tenant context
TopStart(x, l, limit, offset) ==
    /\ tq.pc = "idle"
    /\ nQueries < MaxQueries
    /\ nQueries' = nQueries + 1
    /\ tq' = [IdleTQ EXCEPT !.pc = "range", !.ctx = x, !.lb = l,
                            !.limit = limit, !.offset = offset]
    /\ UNCHANGED <<timeVars, notQuery>>

\* if (!tenantId || !projectId) return reply.code(400)
TopNoContext ==
    /\ tq.pc = "idle"
    /\ nQueries < MaxQueries
    /\ nQueries' = nQueries + 1
    /\ tq' = [IdleTQ EXCEPT !.status = 400]
    /\ UNCHANGED <<timeVars, notQuery>>

\* const results = await redis.zrevrange(redisKey, start, stop, 'WITHSCORES')
TopRange ==
    /\ tq.pc = "range"
    /\ tq' = [tq EXCEPT !.pc = "card",
                        !.results = ZRevRange(ZStored(TopKey(tq)), tq.offset,
                                              tq.offset + tq.limit - 1)]
    /\ UNCHANGED nQueries
    /\ UNCHANGED <<timeVars, notQuery>>

\* rank: offset + i / 2 + 1
TopEntries(q) ==
    [i \in 1..Len(q.results) |->
        [rank |-> q.offset + i, userId |-> q.results[i].userId,
         score |-> q.results[i].score]]

\* const total = await redis.zcard(redisKey); reply.send({ entries, total })
TopCard ==
    /\ tq.pc = "card"
    /\ tq' = [tq EXCEPT !.pc = "idle", !.entries = TopEntries(tq),
                        !.total = ZCard(ZStored(TopKey(tq))), !.status = 200]
    /\ UNCHANGED nQueries
    /\ UNCHANGED <<timeVars, notQuery>>

\* catch (error): a Redis command failed; reply 500
TopRedisError ==
    /\ tq.pc # "idle"
    /\ tq' = [IdleTQ EXCEPT !.status = 500]
    /\ UNCHANGED nQueries
    /\ UNCHANGED <<timeVars, notQuery>>

\* GET /:id/rank/:userId arrives with its tenant context
RankStart(x, l, u, wn, nc) ==
    /\ tq.pc = "idle"
    /\ nQueries < MaxQueries
    /\ nQueries' = nQueries + 1
    /\ tq' = [IdleTQ EXCEPT !.pc = "zscore", !.ctx = x, !.lb = l, !.userId = u,
                            !.withNeighbors = wn, !.neighborCount = nc]
    /\ UNCHANGED <<timeVars, notQuery>>

\* const score = await redis.zscore(redisKey, userId)
RankScore ==
    /\ tq.pc = "zscore"
    /\ tq' = [tq EXCEPT !.pc = "zrevrank", !.score = ZStored(TopKey(tq))[tq.userId]]
    /\ UNCHANGED nQueries
    /\ UNCHANGED <<timeVars, notQuery>>

\* the entries of one neighbour list: rank = start + i / 2 + 1
NeighborEntries(start, results) ==
    [i \in 1..Len(results) |->
        [rank |-> start + i, userId |-> results[i].userId,
         score |-> results[i].score]]

\* const rank = await redis.zrevrank(redisKey, userId); the reply with nulls
\* for a member that has no score or no rank, the reply without neighbours,
\* or on to the neighbour queries (no query above the first member)
RankRank ==
    /\ tq.pc = "zrevrank"
    /\ LET z == ZStored(TopKey(tq))
           rank == IF z[tq.userId].has THEN Entry(ZRevRank(z, tq.userId)) ELSE NoEntry
       IN tq' = IF ~tq.score.has \/ ~rank.has
                THEN [tq EXCEPT !.pc = "idle", !.status = 200,
                                !.score = NoEntry, !.rank = NoEntry]
                ELSE IF ~tq.withNeighbors
                THEN [tq EXCEPT !.pc = "idle", !.status = 200,
                                !.rank = Entry(rank.v + 1)]
                ELSE [tq EXCEPT !.pc = IF rank.v > 0 THEN "above" ELSE "below",
                                !.rank = rank]
    /\ UNCHANGED nQueries
    /\ UNCHANGED <<timeVars, notQuery>>

\* redis.zrevrange(redisKey, aboveStart, aboveStop, 'WITHSCORES')
RankAbove ==
    /\ tq.pc = "above"
    /\ LET aboveStart == Max(0, tq.rank.v - tq.neighborCount)
           aboveStop == Max(0, tq.rank.v - 1)
       IN tq' = [tq EXCEPT !.pc = "below",
                           !.above = ZRevRange(ZStored(TopKey(tq)), aboveStart, aboveStop)]
    /\ UNCHANGED nQueries
    /\ UNCHANGED <<timeVars, notQuery>>

\* redis.zrevrange(redisKey, belowStart, belowStop, 'WITHSCORES'); the two
\* lists of entries; reply.send(result)
RankBelow ==
    /\ tq.pc = "below"
    /\ LET aboveStart == Max(0, tq.rank.v - tq.neighborCount)
           belowStart == tq.rank.v + 1
           belowStop == tq.rank.v + tq.neighborCount
           below == ZRevRange(ZStored(TopKey(tq)), belowStart, belowStop)
       IN tq' = [tq EXCEPT !.pc = "idle", !.status = 200,
                           !.rank = Entry(tq.rank.v + 1),
                           !.above = <<>>,
                           !.neighbors =
                               [has |-> TRUE,
                                above |-> NeighborEntries(aboveStart, tq.above),
                                below |-> NeighborEntries(belowStart, below)]]
    /\ UNCHANGED nQueries
    /\ UNCHANGED <<timeVars, notQuery>>

InitQuery == tq = IdleTQ /\ nQueries = 0

----------------------------------------------------------------------------
(* Time, initial states and specifications *)

\* Time passes.  A script runs in no time: the clock does not move inside it.
Tick(d) ==
    /\ ticks < MaxTicks
    /\ redisBusy = {}
    /\ clock' = clock + d
    /\ ticks' = ticks + 1
    /\ UNCHANGED <<rlVars, lbRow, meta, zset, zTTL, us, queue, scoreEvents,
                   nUpdates, nPublished, nPubFailed, nHandled, written>>
    /\ UNCHANGED <<authVars, adminVars, queryVars, batchVars, usageVars,
                   billingVars, ctlVars, procVars>>
    /\ flags' = flags \cup KeysLapsing(clock + d)

\* Time passes between two requests, none of which is in flight
QuietTick(d) ==
    /\ \A r \in DOMAIN rlPc : rlPc[r] = "idle"
    /\ Tick(d)

\* Days pass: long enough for a score key with ttlDays = 1 to expire
DayTick ==
    /\ ticks < MaxDayTicks
    /\ Tick(2 * MsPerDay)

----------------------------------------------------------------------------
(* Billing service: POST /usage/record on table usage_records *)

MaxRecordCalls == 3
\* deltas a caller submits
ScoreUpdateDeltas == {0, 1, 2}
LeaderboardReadDeltas == {0, 1}

\* CREATE TABLE usage_records: the column sets that carry a unique index;
\* the primary key on id is the only one
UsageRecordsUnique == {<<"id">>}
\* ON CONFLICT (tenant_id, project_id, date)
ConflictTarget == <<"tenant_id", "project_id", "date">>

\* today.setHours(0, 0, 0, 0): the day the clock shows
Today == clock \div MsPerDay

NoSubmitted == [calls |-> 0, scoreUpdates |-> 0, leaderboardReads |-> 0]
NoRU == [status |-> 0, calls |-> 0, submitted |-> [x \in Contexts |-> NoSubmitted]]

RowsOf(rows, x, d) ==
    {i \in 1..Len(rows) : /\ rows[i].tenantId = x.tenantId
                          /\ rows[i].projectId = x.projectId
                          /\ rows[i].date = d}

\* INSERT ... ON CONFLICT (...) DO UPDATE SET col = usage_records.col + delta:
\* one statement, which the database runs atomically against the arbiter index
Upsert(rows, x, d, su, lr) ==
    IF RowsOf(rows, x, d) = {}
    THEN Append(rows, [tenantId |-> x.tenantId, projectId |-> x.projectId,
                       date |-> d, scoreUpdates |-> su, leaderboardReads |-> lr,
                       totalRequests |-> su + lr])
    ELSE [i \in 1..Len(rows) |->
            IF i \in RowsOf(rows, x, d)
            THEN [rows[i] EXCEPT !.scoreUpdates = @ + su,
                                 !.leaderboardReads = @ + lr,
                                 !.totalRequests = @ + (su + lr)]
            ELSE rows[i]]

\* POST /usage/record.  The database accepts ON CONFLICT (columns) only if a
\* unique index on exactly those columns exists; otherwise the statement is
\* rejected, the catch answers 500 and no row is written.
RecordUsage(x, su, lr) ==
    /\ ru.calls < MaxRecordCalls
    /\ LET accepted == ConflictTarget \in UsageRecordsUnique
       IN /\ usageRecords' = IF accepted THEN Upsert(usageRecords, x, Today, su, lr)
                             ELSE usageRecords
          /\ ru' = [status |-> IF accepted THEN 201 ELSE 500,
                    calls |-> ru.calls + 1,
                    submitted |-> [ru.submitted EXCEPT ![x] =
                        [calls |-> @.calls + 1,
                         scoreUpdates |-> @.scoreUpdates + su,
                         leaderboardReads |-> @.leaderboardReads + lr]]]
    /\ UNCHANGED <<timeVars, notBilling>>

InitBilling == usageRecords = <<>> /\ ru = NoRU

----------------------------------------------------------------------------
(* Leaderboards service: POST /leaderboards, GET/PUT/DELETE /leaderboards/:id *)

MaxCtlCalls == 5

\* bodies of PUT /leaderboards/:id: the fields they name, with their values
UpdateBodies == {[f \in {} |-> ""], [sortOrder |-> "asc"]}

\* a row of the leaderboards table, with its project; state "none": no row
\* with this id yet; "deleted": the row has been deleted
NoProjectRow == [state |-> "none", projectId |-> "", sortOrder |-> "",
                 updateMode |-> "", ttlDays |-> 0]
NoLc == [op |-> "", ctx |-> NoContext, id |-> "", body |-> {}, status |-> 0,
         entity |-> NoProjectRow, calls |-> 0, seen |-> {}]

\* WHERE id = ${id} AND project_id = ${projectId}
Addressed(x, l) ==
    lbRow[l].state = "active" /\ lbRow[l].projectId = x.projectId

\* the reply of one request, recorded with what has been answered so far
Replied(op, x, l, body, status, entity) ==
    /\ lc.calls < MaxCtlCalls
    /\ lc' = [op |-> op, ctx |-> x, id |-> l, body |-> body, status |-> status,
              entity |-> entity, calls |-> lc.calls + 1,
              seen |-> lc.seen \cup {<<op, x.projectId, status>>}]

\* if (!projectId) return reply.code(400): every handler starts with it
LbNoContext(op, l) ==
    /\ Replied(op, NoContext, l, {}, 400, NoProjectRow)
    /\ UNCHANGED <<timeVars, scVars, notCtl>>

\* POST /: INSERT INTO leaderboards (project_id, ...) RETURNING *; 201
LbCreate(x, l, so, um, ttl) ==
    /\ lbRow[l].state = "none"
    /\ lbRow' = [lbRow EXCEPT ![l] = [state |-> "active", projectId |-> x.projectId,
                                      sortOrder |-> so, updateMode |-> um,
                                      ttlDays |-> ttl]]
    /\ Replied("create", x, l, {}, 201, lbRow'[l])
    /\ UNCHANGED <<meta, zset, zTTL, us, queue, scoreEvents, nUpdates,
                   nPublished, nPubFailed, nHandled, written, flags>>
    /\ UNCHANGED <<timeVars, notLb>>

\* GET /:id: SELECT ... WHERE id AND project_id LIMIT 1; 404 without a row
LbGet(x, l) ==
    /\ IF Addressed(x, l)
       THEN Replied("get", x, l, {}, 200, lbRow[l])
       ELSE Replied("get", x, l, {}, 404, NoProjectRow)
    /\ UNCHANGED <<timeVars, scVars, notCtl>>

\* PUT /:id: 400 for a body without fields; UPDATE ... SET the fields named
\* WHERE id AND project_id RETURNING *; 404 without a row
LbUpdate(x, l, body) ==
    /\ IF DOMAIN body = {}
       THEN /\ Replied("update", x, l, DOMAIN body, 400, NoProjectRow)
            /\ UNCHANGED lbRow
       ELSE IF Addressed(x, l)
       THEN /\ lbRow' = [lbRow EXCEPT ![l] = body @@ @]
            /\ Replied("update", x, l, DOMAIN body, 200, lbRow'[l])
       ELSE /\ Replied("update", x, l, DOMAIN body, 404, NoProjectRow)
            /\ UNCHANGED lbRow
    /\ UNCHANGED <<meta, zset, zTTL, us, queue, scoreEvents, nUpdates,
                   nPublished, nPubFailed, nHandled, written, flags>>
    /\ UNCHANGED <<timeVars, notLb>>

\* a DELETE that selects the row by its id alone
LbDeleteById(x, l) ==
    /\ IF lbRow[l].state = "active"
       THEN /\ lbRow' = [lbRow EXCEPT ![l] = [NoProjectRow EXCEPT !.state = "deleted"]]
            /\ Replied("delete", x, l, {}, 200, NoProjectRow)
       ELSE /\ Replied("delete", x, l, {}, 404, NoProjectRow)
            /\ UNCHANGED lbRow
    /\ UNCHANGED <<meta, zset, zTTL, us, queue, scoreEvents, nUpdates,
                   nPublished, nPubFailed, nHandled, written, flags>>
    /\ UNCHANGED <<timeVars, notLb>>
\* DELETE /:id: DELETE ... WHERE id AND project_id RETURNING *; 404 without a
\* row; the event is only logged (publishLeaderboardEvent is console.log)
LbDelete(x, l) ==
    /\ IF Addressed(x, l)
       THEN /\ lbRow' = [lbRow EXCEPT ![l] = [NoProjectRow EXCEPT !.state = "deleted"]]
            /\ Replied("delete", x, l, {}, 200, NoProjectRow)
       ELSE /\ Replied("delete", x, l, {}, 404, NoProjectRow)
            /\ UNCHANGED lbRow
    /\ UNCHANGED <<meta, zset, zTTL, us, queue, scoreEvents, nUpdates,
                   nPublished, nPubFailed, nHandled, written, flags>>
    /\ UNCHANGED <<timeVars, notLb>>

InitCtl == lc = NoLc

----------------------------------------------------------------------------
(* API server process: start() and shutdown(signal) *)

MaxSignals == 2
\* setTimeout(..., 30000): forced exit
ShutdownGraceMs == 30000

\* exit -1: the process runs; opened and closed list the resources in the
\* order start() has initialised and shutdown() has closed them
NoProc == [startPc |-> "redis", shutPc |-> "idle", isShuttingDown |-> FALSE,
           server |-> FALSE, opened |-> <<>>, closed |-> <<>>, exit |-> -1,
           timer |-> NoTTL, signals |-> 0]
Running == proc.exit = -1

\* process.exit(code): nothing runs afterwards
Exit(p, code) == [p EXCEPT !.exit = code, !.timer = NoTTL]

\* await redis.connect(); a failure is caught: process.exit(1)
StartRedis(ok) ==
    /\ Running /\ proc.startPc = "redis"
    /\ proc' = IF ok THEN [proc EXCEPT !.startPc = "db", !.opened = Append(@, "cache")]
               ELSE Exit(proc, 1)
    /\ UNCHANGED <<timeVars, notProc>>

\* const pgHealthy = await db.healthCheck(); if (!pgHealthy) throw
StartDb(ok) ==
    /\ Running /\ proc.startPc = "db"
    /\ proc' = IF ok THEN [proc EXCEPT !.startPc = "listen", !.opened = Append(@, "db")]
               ELSE Exit(proc, 1)
    /\ UNCHANGED <<timeVars, notProc>>

\* server = app.listen(config.port, ...)
StartListen ==
    /\ Running /\ proc.startPc = "listen"
    /\ proc' = [proc EXCEPT !.startPc = "done", !.server = TRUE,
                            !.opened = Append(@, "listener")]
    /\ UNCHANGED <<timeVars, notProc>>

\* SIGTERM / SIGINT: shutdown(signal) up to its first await.  With
\* isShuttingDown set it only logs; otherwise it sets the flag, arms the
\* forced exit and starts with the server if there is one.
Signal ==
    /\ Running /\ proc.signals < MaxSignals
    /\ proc' = IF proc.isShuttingDown
               THEN [proc EXCEPT !.signals = @ + 1]
               ELSE [proc EXCEPT !.signals = @ + 1, !.isShuttingDown = TRUE,
                                 !.timer = [armed |-> TRUE, at |-> clock + ShutdownGraceMs],
                                 !.shutPc = IF proc.server THEN "server" ELSE "redis"]
    /\ UNCHANGED <<timeVars, notProc>>

\* server.close(callback) has called back
ShutServer(ok) ==
    /\ Running /\ proc.shutPc = "server"
    /\ proc' = IF ok THEN [proc EXCEPT !.shutPc = "redis", !.closed = Append(@, "listener")]
               ELSE Exit(proc, 1)
    /\ UNCHANGED <<timeVars, notProc>>

\* await redis.disconnect()
ShutRedis(ok) ==
    /\ Running /\ proc.shutPc = "redis"
    /\ proc' = IF ok THEN [proc EXCEPT !.shutPc = "db", !.closed = Append(@, "cache")]
               ELSE Exit(proc, 1)
    /\ UNCHANGED <<timeVars, notProc>>

\* await db.close(); clearTimeout; process.exit(0)
ShutDb(ok) ==
    /\ Running /\ proc.shutPc = "db"
    /\ proc' = IF ok THEN Exit([proc EXCEPT !.shutPc = "done",
                                            !.closed = Append(@, "db")], 0)
               ELSE Exit(proc, 1)
    /\ UNCHANGED <<timeVars, notProc>>

\* the forced-exit timer fires: process.exit(1)
ForceExit ==
    /\ Running /\ proc.timer.armed /\ clock >= proc.timer.at
    /\ proc' = Exit(proc, 1)
    /\ UNCHANGED <<timeVars, notProc>>

\* time passes while the process runs; every step of shutdown() awaits, so
\* the forced-exit timer fires when it is due and time does not pass it
ProcTick(d) ==
    /\ Running
    /\ proc.timer.armed => clock + d <= proc.timer.at
    /\ clock' = clock + d
    /\ ticks' = ticks + 1
    /\ ticks < MaxTicks
    /\ UNCHANGED <<rlVars, scVars, authVars, adminVars, queryVars, batchVars,
                   usageVars, billingVars, ctlVars, procVars>>

InitProc == proc = NoProc

InitClock ==
    /\ clock = 0 /\ ticks = 0
    /\ InitAuth /\ InitAdmin /\ InitQuery /\ InitBatch /\ InitBilling /\ InitCtl
    /\ InitProc
InitTime == InitClock /\ InitUsage

InitRL(reqs) ==
    /\ rlBucket = NoBucket
    /\ rlExpireAt = 0
    /\ redisBusy = {}
    /\ rlPc = [r \in reqs |-> "idle"]
    /\ rlNow = [r \in reqs |-> 0]
    /\ rlSnap = [r \in reqs |-> NoBucket]
    /\ rlOut = [r \in reqs |-> NoOut]
    /\ nReq = 0
    /\ nAllowed = 0
    /\ tFirst = -1
    /\ tLast = -1
    /\ refillLost = FALSE
    /\ deniedEarly = FALSE

\* One tenant's requests, one after the other
SeqReqs == {1}
InitRLSeq == InitTime /\ InitRL(SeqReqs) /\ InitSC(EmptyMeta)
NextRLSeq ==
    \/ \E r \in SeqReqs : RLReadNow(r)
    \/ \E r \in SeqReqs : RLScriptRead(r)
    \/ \E r \in SeqReqs : RLScriptWrite(r)
    \/ \E r \in SeqReqs : RLEvalFails(r)
    \/ \E d \in TickSteps : QuietTick(d)
SpecRLSeq == InitRLSeq /\ [][NextRLSeq]_vars

\* One tenant's requests arriving concurrently through several gateways
ConcReqs == {1, 2}
InitRL2 == InitTime /\ InitRL(ConcReqs) /\ InitSC(EmptyMeta)
NextRL ==
    \/ \E r \in ConcReqs : RLReadNow(r)
    \/ \E r \in ConcReqs : RLScriptRead(r)
    \/ \E r \in ConcReqs : RLScriptWrite(r)
    \/ \E r \in ConcReqs : RLEvalFails(r)
    \/ \E d \in TickSteps : Tick(d)
SpecRL == InitRL2 /\ [][NextRL]_vars


\* The metadata hashes of best-mode leaderboards the scores service may find
\* in Redis
SeededMeta ==
    {[fields |-> CreatedFields
                   \cup (IF um = "" THEN {} ELSE {"updateMode"})
                   \cup (IF so = "" THEN {} ELSE {"sortOrder"}),
      ttlDays |-> t, updateMode |-> um, sortOrder |-> so,
             expire |-> NoTTL] :
        um \in {"best"},
        so \in {"asc", "desc"},
        t \in TtlChoices}

\* The scores service over a store that holds the metadata of best-mode
\* leaderboards.  No worker is subscribed: core NATS delivers a message to
\* the subscriptions that exist when it is published, so every publication
\* is lost.
InitBest == InitTime /\ InitRL(SeqReqs) /\ \E m \in SeededMeta : InitSC(m)
NextBest ==
    \/ \E c \in Clients, l \in Leaderboards, u \in Users, s \in ScoreValues,
          inc \in BOOLEAN : USStart(c, KeyContext, l, u, s, inc)
    \/ \E c \in Clients : USNoContext(c)
    \/ \E c \in Clients : USReadMeta(c)
    \/ \E c \in Clients : USBestRead(c)
    \/ \E c \in Clients : USApply(c)
    \/ \E c \in Clients : USExpire(c)
    \/ \E c \in Clients : USReadScore(c)
    \/ \E c \in Clients : USReadRankReply(c, FALSE)
    \/ \E c \in Clients : USRedisError(c)
    \/ DayTick
SpecBest == InitBest /\ [][NextBest]_vars

\* Leaderboard control, one scores-service client and the worker over an
\* empty store
EventClients == {ClientOrder[1]}
\* Leaderboards created: one with the configuration UpdateScore assumes when
\* it finds no metadata, one that differs from it in every field
LbConfigs == {[sortOrder |-> "desc", updateMode |-> "replace", ttlDays |-> 0],
              [sortOrder |-> "asc", updateMode |-> "best", ttlDays |-> 1]}
\* The zscore step of best mode (USBestRead) is no step of this
\* specification: the metadata hash is written by the worker alone here, it
\* never holds an updateMode, and USReadMeta never sends a request there.
InitEvents == InitTime /\ InitRL(SeqReqs) /\ InitSC(EmptyMeta)
NextEvents ==
    \/ \E l \in Leaderboards, cfg \in LbConfigs, sent \in BOOLEAN :
          CreateLeaderboard(l, cfg.sortOrder, cfg.updateMode, cfg.ttlDays, sent)
    \/ \E l \in Leaderboards, sent \in BOOLEAN : DeleteLeaderboard(l, sent)
    \/ \E c \in EventClients, l \in Leaderboards, u \in Users, s \in ScoreValues,
          inc \in BOOLEAN : USStart(c, KeyContext, l, u, s, inc)
    \/ \E c \in EventClients : USNoContext(c)
    \/ \E c \in EventClients : USReadMeta(c)
    \/ \E c \in EventClients : USApply(c)
    \/ \E c \in EventClients : USExpire(c)
    \/ \E c \in EventClients : USReadScore(c)
    \/ \E c \in EventClients, sent \in BOOLEAN : USReadRankReply(c, sent)
    \/ \E c \in EventClients : USRedisError(c)
    \/ \E ok \in BOOLEAN : HandleScoreUpdated(ok)
    \/ \E ok \in BOOLEAN : HandleLeaderboardCreated(ok)
    \/ \E ok \in BOOLEAN : HandleLeaderboardDeleted(ok)
SpecEvents == InitEvents /\ [][NextEvents]_vars

\* The scores service serving single and batch updates while the broker may
\* refuse publications; the leaderboard has no metadata, or the metadata of
\* a best-mode leaderboard with a time to live.
PubMeta == {EmptyMeta,
            [fields |-> CreatedFields \cup {"updateMode", "sortOrder"},
             ttlDays |-> 1, updateMode |-> "best", sortOrder |-> "desc",
             expire |-> NoTTL]}
PubScore == CHOOSE s \in ScoreValues : \A t \in ScoreValues : s >= t
\* batches of non-incrementing updates whose scores fall: the first is the
\* best of the batch
PubBatches == {ups \in Batches : \A j \in 1..Len(ups) :
                  /\ ~ups[j].increment
                  /\ j > 1 => ups[j].score < ups[j - 1].score}
\* the broker refuses at most MaxPubFailures publications
MaxPubFailures == 2
MayFail(sent) == sent \/ nPubFailed < MaxPubFailures
InitPub == InitTime /\ InitRL(SeqReqs) /\ \E m \in PubMeta : InitSC(m)
NextPub ==
    \/ \E c \in EventClients, l \in Leaderboards, u \in Users, inc \in BOOLEAN :
          USStart(c, KeyContext, l, u, PubScore, inc)
    \/ \E c \in EventClients : USNoContext(c)
    \/ \E c \in EventClients : USReadMeta(c)
    \/ \E c \in EventClients : USBestRead(c)
    \/ \E c \in EventClients : USApply(c)
    \/ \E c \in EventClients : USExpire(c)
    \/ \E c \in EventClients : USReadScore(c)
    \/ \E c \in EventClients, sent \in BOOLEAN :
          MayFail(sent) /\ USReadRankReply(c, sent)
    \/ \E c \in EventClients : USRedisError(c)
    \/ \E ups \in PubBatches : BUStart(KeyContext, ups)
    \/ BUNoContext
    \/ BUReadMeta
    \/ BUReadCurrent
    \/ \E sent \in BOOLEAN : MayFail(sent) /\ BUBuild(sent)
    \/ BUExec
    \/ BUReply
    \/ BURedisError
SpecPub == InitPub /\ [][NextPub]_vars

\* C18: a publication that fails never fails the request.  Every step of
\* UpdateScore or BatchUpdateScore that publishes an event, whether the broker
\* takes the event or refuses it, leaves the sorted sets as they are and
\* continues the request in the one way its state before the step determines:
\* UpdateScore answers 200 with the member's rank, BatchUpdateScore records the
\* update as a success, queues its commands and goes on to answer 200.
C18_PublishFailureHarmless ==
    [][(nPubFailed' # nPubFailed \/ nPublished' # nPublished) =>
         /\ zset' = zset /\ zTTL' = zTTL
         /\ \A c \in Clients : us'[c] # us[c] =>
              LET r == us[c]
                  z == ZStored(ScoreKey(r.ctx, r.lb))
              IN /\ us'[c].pc = "idle" /\ us'[c].status = 200
                 /\ us'[c].replyRank =
                       IF ~z[r.user].has THEN 0
                       ELSE IF r.sortOrder = "desc" THEN ZRevRank(z, r.user) + 1
                       ELSE ZRank(z, r.user) + 1
         /\ bu' # bu =>
              /\ bu'.status = 0 /\ bu'.pc \in {"build", "exec"}
              /\ bu'.updates = bu.updates
              /\ bu'.pipeline = bu.pipeline \o BUCommands(bu, bu.updates[bu.i])
              /\ Len(bu'.results) = bu.i /\ bu'.results[bu.i].success
              /\ bu'.pc = "exec" <=> bu.i = Len(bu.updates)]_vars
\* a single update and a batch have both been answered 200, the sorted set
\* holds a score, and every publication of the two requests was refused
C18_Witness ==
    /\ nPubFailed = 2 /\ nPublished["score.updated"] = 0
    /\ bu.pc = "idle" /\ bu.status = 200 /\ bu.processed = 1
    /\ \E c \in Clients : us[c].pc = "idle" /\ us[c].status = 200 /\ us[c].replyRank = 1
    /\ \E k \in ScoreKeys, u \in Users : ZStored(k)[u].has

\* Two clients incrementing one member's score while days may pass.  The
\* leaderboard has no metadata, or the metadata of an increment-mode
\* leaderboard with a time to live; the member has no score, or the score an
\* earlier write left.  The k-th request adds the k-th amount.
IncMeta == {EmptyMeta,
            [fields |-> CreatedFields \cup {"updateMode", "sortOrder"},
             ttlDays |-> 1, updateMode |-> "increment", sortOrder |-> "desc",
             expire |-> NoTTL]}
IncSeeds == {{}, {10}}
IncAmount(k) ==
    CHOOSE s \in ScoreValues :
        Cardinality({t \in ScoreValues : t < s}) = (k - 1) % Cardinality(ScoreValues)
InitInc ==
    /\ InitTime /\ InitRL(SeqReqs)
    /\ lbRow = [l \in Leaderboards |-> NoRow]
    /\ \E m \in IncMeta : meta = [k \in MetaKeys |-> m]
    /\ \E seed \in IncSeeds :
         /\ written = [l \in Leaderboards |-> [u \in Users |-> seed]]
         /\ zset = [k \in ScoreKeys |->
                      IF k[2] = KeyContext.tenantId
                      THEN [u \in Users |->
                              IF seed = {} THEN NoEntry
                              ELSE Entry(CHOOSE s \in seed : TRUE)]
                      ELSE EmptyZ]
    /\ zTTL = [k \in ScoreKeys |-> NoTTL]
    /\ us = [c \in Clients |-> IdleUS]
    /\ queue = [s \in Subjects |-> <<>>]
    /\ scoreEvents = <<>>
    /\ nUpdates = 0
    /\ nPublished = [s \in Subjects |-> 0]
    /\ nPubFailed = 0
    /\ nHandled = [s \in Subjects |-> 0]
    /\ flags = {}
NextInc ==
    \/ \E c \in Clients, l \in Leaderboards, u \in Users :
          USStart(c, KeyContext, l, u, IncAmount(nUpdates + 1), TRUE)
    \/ \E c \in Clients : USReadMeta(c)
    \/ \E c \in Clients : USApply(c)
    \/ \E c \in Clients : USExpire(c)
    \/ \E c \in Clients : USReadScore(c)
    \/ \E c \in Clients : USReadRankReply(c, FALSE)
    \/ \E c \in Clients : us[c].pc \notin {"meta", "apply"} /\ USRedisError(c)
    \/ DayTick
SpecInc == InitInc /\ [][NextInc]_vars

\* the score the member had before the increments
InitialScore(l, u) == IF written[l][u] = {} THEN 0 ELSE CHOOSE s \in written[l][u] : TRUE
\* the sum of the increments whose ZINCRBY has run: those of the requests
\* started, less those of the requests that have not reached it yet
RECURSIVE StartedSum(_)
StartedSum(n) == IF n = 0 THEN 0 ELSE IncAmount(n) + StartedSum(n - 1)
RECURSIVE PendingSum(_)
PendingSum(cs_) ==
    IF cs_ = {} THEN 0
    ELSE LET c == CHOOSE d \in cs_ : TRUE
         IN (IF us[c].pc \in {"meta", "apply"} THEN us[c].score ELSE 0)
            + PendingSum(cs_ \ {c})
AppliedSum == StartedSum(nUpdates) - PendingSum(Clients)
StoredScore(l, u) ==
    LET e == ZStored(ScoreKey(KeyContext, l))[u] IN IF e.has THEN e.v ELSE 0

\* C19: increments compose.  After any number of increments of one member,
\* one after the other or interleaved, the stored score is the member's
\* initial score (0 if it had none) plus the sum of the increments (looked at
\* while a score is stored).
C19_IncrementsAddUp ==
    \A l \in Leaderboards, u \in Users :
        ZStored(ScoreKey(KeyContext, l))[u].has =>
            StoredScore(l, u) = InitialScore(l, u) + AppliedSum

\* C19 as amended: the same, as long as the score key has not expired
\* (ttlDays) since the first of the increments.
C19_AddUpWhileKeyLives ==
    \A l \in Leaderboards, u \in Users :
        "expired" \notin flags =>
            StoredScore(l, u) = InitialScore(l, u) + AppliedSum

\* Two increments have been applied to a member that had a score, both
\* requests are answered, and the stored score is the sum of the three.
C19_Witness ==
    \E l \in Leaderboards, u \in Users :
        /\ nUpdates = 2 /\ "expired" \notin flags
        /\ \A c \in Clients : ~InFlight(c) /\ us[c].status = 200
        /\ InitialScore(l, u) > 0
        /\ StoredScore(l, u) = InitialScore(l, u) + IncAmount(1) + IncAmount(2)

\* Two gateway responses tracked concurrently while usage is read.
InitUsageSpec == InitTime /\ InitRL(SeqReqs) /\ InitSC(EmptyMeta)
NextUsage ==
    \/ \E r \in Trackers, code \in ResponseCodes : UsageStart(r, code)
    \/ \E r \in Trackers : UsageExec(r)
    \/ \E r \in Trackers : UsageExecFails(r)
    \/ GetUsageStats
SpecUsage == InitUsageSpec /\ [][NextUsage]_vars

\* C20: the usage writes of one request are applied atomically.  Whenever no
\* pipeline is running, the tenant-day requests counter, its hour counter and
\* the project-day requests counter have counted the same requests and a key
\* that was counted on expires (all of a request's writes or none); and no
\* reader sees the requests counter ahead of the hour counter.
C20_UsageWritesAtomic ==
    /\ (\A r \in Trackers : usagePipe[r] = <<>>) =>
          /\ usage.tenantRequests = usage.tenantHour
          /\ usage.tenantRequests = usage.projectRequests
          /\ usage.tenantRequests > 0 => usage.tenantExpires /\ usage.projectExpires
    /\ stats.totalRequests = stats.hourly

\* C21: the requests counter of the tenant-day usage hash never decreases
\* and is never reset: a step that changes it raises it by exactly 1, that
\* step is the HINCRBY requests of one response's pipeline, and the pipeline
\* of a tracked response holds that command exactly once.
C21_UsageCounterMonotonic ==
    [][/\ usage'.tenantRequests >= usage.tenantRequests
       /\ usage'.tenantRequests # usage.tenantRequests =>
            /\ usage'.tenantRequests = usage.tenantRequests + 1
            /\ \E r \in Trackers :
                 /\ usagePipe[r] # <<>>
                 /\ Head(usagePipe[r]) = "hincrby tenant requests"
                 /\ usagePipe'[r] = Tail(usagePipe[r])
       /\ \A r \in Trackers :
            (usagePipe[r] = <<>> /\ usagePipe'[r] # <<>>) =>
                Cardinality({i \in DOMAIN usagePipe'[r] :
                    usagePipe'[r][i] = "hincrby tenant requests"}) = 1]_vars
\* two responses have been tracked to the end and the counter stands at 2
C21_Witness ==
    /\ nTracked = 2
    /\ \A r \in Trackers : usagePipe[r] = <<>>
    /\ usage.tenantRequests = 2 /\ usage.tenantHour = 2 /\ usage.projectRequests = 2

\* Ranking queries against a leaderboard at rest: the leaderboard of
\* KeyContext is active with sort order asc or desc, and its sorted set
\* holds any of no score, 30 or 50 for each of three members (ties included).
RankScores == {30, 50}
RankSeeds == [Members -> {NoEntry} \cup {Entry(s) : s \in RankScores}]
TopLimits == {1, 2, DefaultLimit}
TopOffsets == {0, 1, 3}
NeighborCounts == {1, 2}
RankLb == CHOOSE l \in Leaderboards : TRUE
RankSortOrder == lbRow[RankLb].sortOrder
InitRank ==
    /\ InitTime /\ InitRL(SeqReqs)
    /\ \E so \in {"asc", "desc"} :
         lbRow = [l \in Leaderboards |->
                     [state |-> "active", sortOrder |-> so,
                      updateMode |-> "replace", ttlDays |-> 0]]
    /\ meta = [k \in MetaKeys |-> EmptyMeta]
    /\ \E seed \in RankSeeds :
         zset = [k \in ScoreKeys |->
                    IF k = ScoreKey(KeyContext, RankLb) THEN seed
                    ELSE [u \in Members |-> NoEntry]]
    /\ zTTL = [k \in ScoreKeys |-> NoTTL]
    /\ us = [c \in Clients |-> IdleUS]
    /\ queue = [s \in Subjects |-> <<>>]
    /\ scoreEvents = <<>>
    /\ nUpdates = 0
    /\ nPublished = [s \in Subjects |-> 0]
    /\ nPubFailed = 0
    /\ nHandled = [s \in Subjects |-> 0]
    /\ written = [l \in Leaderboards |-> [u \in Users |-> {}]]
    /\ flags = {}
NextRank ==
    \/ \E limit \in TopLimits, offset \in TopOffsets :
          TopStart(KeyContext, RankLb, limit, offset)
    \/ TopNoContext
    \/ TopRange
    \/ TopCard
    \/ TopRedisError
    \/ \E u \in Members, wn \in BOOLEAN, nc \in NeighborCounts :
          RankStart(KeyContext, RankLb, u, wn, nc)
    \/ RankScore
    \/ RankRank
    \/ RankAbove
    \/ RankBelow
SpecRank == InitRank /\ [][NextRank]_vars

\* the reply of a Top query, of a RankOf query
TopReplied == tq.pc = "idle" /\ tq.status = 200 /\ tq.limit > 0
RankReplied == tq.pc = "idle" /\ tq.status = 200 /\ tq.userId # ""
\* a comes no later than b in the order sortOrder asks for
InOrder(so, a, b) == IF so = "asc" THEN a <= b ELSE a >= b

\* C22: the entries of a Top reply are ordered by the leaderboard's
\* sortOrder (non-increasing scores for desc, non-decreasing for asc), their
\* ranks are offset+1, offset+2, ... and there are
\* min(limit, max(0, total - offset)) of them.
C22_TopOrderedBySortOrder ==
    TopReplied =>
        /\ Len(tq.entries) = Min(tq.limit, Max(0, tq.total - tq.offset))
        /\ \A i \in 1..Len(tq.entries) : tq.entries[i].rank = tq.offset + i
        /\ \A i, j \in 1..Len(tq.entries) :
              i < j => InOrder(RankSortOrder, tq.entries[i].score, tq.entries[j].score)

\* Rank is 1-based: descending rank for sortOrder = desc, ascending otherwise
TrueRank(z, so, u) == IF so = "desc" THEN ZRevRank(z, u) + 1 ELSE ZRank(z, u) + 1
\* the members whose true rank lies in lo..hi
RankedIn(z, so, lo, hi) ==
    {v \in DOMAIN z : z[v].has /\ TrueRank(z, so, v) >= lo /\ TrueRank(z, so, v) <= hi}
NeighborIds(list) == {list[i].userId : i \in 1..Len(list)}
\* what the claim asks of a RankOf reply about sorted set z of sort order so
RankReplyRight(z, so) ==
    LET u == tq.userId
        r == TrueRank(z, so, u)
    IN IF ~z[u].has
       THEN tq.rank = NoEntry /\ tq.score = NoEntry /\ ~tq.neighbors.has
       ELSE /\ tq.rank = Entry(r)
            /\ tq.score = z[u]
            /\ tq.neighbors.has = tq.withNeighbors
            /\ tq.withNeighbors =>
                 /\ Len(tq.neighbors.above) = Cardinality(NeighborIds(tq.neighbors.above))
                 /\ Len(tq.neighbors.below) = Cardinality(NeighborIds(tq.neighbors.below))
                 /\ NeighborIds(tq.neighbors.above) =
                        RankedIn(z, so, r - tq.neighborCount, r - 1)
                 /\ NeighborIds(tq.neighbors.below) =
                        RankedIn(z, so, r + 1, r + tq.neighborCount)
                 /\ \A list \in {tq.neighbors.above, tq.neighbors.below} :
                      \A i \in 1..Len(list) :
                          /\ list[i].userId # u
                          /\ list[i].rank = TrueRank(z, so, list[i].userId)
                          /\ list[i].score = z[list[i].userId].v

\* C23: a RankOf reply gives the member's 1-based rank and score; with
\* neighbours, above holds the up-to-neighborCount entries of strictly better
\* rank nearest the member and below those of strictly worse rank, clamped to
\* the members there are, neither holds the member itself, and each entry
\* carries its true rank; a member with no score gets null rank, score and
\* neighbours with status 200.
C23_RankNeighbors ==
    RankReplied => RankReplyRight(ZStored(TopKey(tq)), RankSortOrder)

\* One batch against three leaderboards of KeyContext, of update modes
\* replace, increment and best (sort order desc), each with or without a
\* time to live, where the member holds no score or 40 on every leaderboard.
\* A batch has up to MaxMixedLen updates, of score 30 or 50 for the best
\* leaderboard and 30 for the others; the broker may refuse publications.
MaxMixedLen == 3
MixedModes == [Lr |-> "replace", Li |-> "increment", Lb |-> "best"]
MixedLbs == DOMAIN MixedModes
MixedSeeds == {NoEntry, Entry(40)}
MixedUpdates ==
    {up \in [lb : MixedLbs, user : Users, score : BatchScores, increment : {FALSE}] :
        MixedModes[up.lb] # "best" => \A s \in BatchScores : up.score <= s}
MixedBatches == UNION {[1..n -> MixedUpdates] : n \in 1..MaxMixedLen}
MixedMeta(l, ttl) ==
    [fields |-> CreatedFields \cup {"updateMode", "sortOrder"},
     ttlDays |-> ttl, updateMode |-> MixedModes[l], sortOrder |-> "desc",
             expire |-> NoTTL]
InitMixed ==
    /\ InitTime /\ InitRL(SeqReqs)
    /\ lbRow = [l \in Leaderboards |-> NoRow]
    /\ \E ttl \in TtlChoices :
         meta = [k \in {MetaKey(KeyContext, l) : l \in MixedLbs} |->
                    MixedMeta(k[5], ttl)]
    /\ \E seed \in MixedSeeds :
         zset = [k \in {ScoreKey(KeyContext, l) : l \in MixedLbs} |->
                    [u \in Users |-> seed]]
    /\ zTTL = [k \in {ScoreKey(KeyContext, l) : l \in MixedLbs} |-> NoTTL]
    /\ us = [c \in Clients |-> IdleUS]
    /\ queue = [s \in Subjects |-> <<>>]
    /\ scoreEvents = <<>>
    /\ nUpdates = 0
    /\ nPublished = [s \in Subjects |-> 0]
    /\ nPubFailed = 0
    /\ nHandled = [s \in Subjects |-> 0]
    /\ written = [l \in Leaderboards |-> [u \in Users |-> {}]]
    /\ flags = {}
NextMixed ==
    \/ \E ups \in MixedBatches : nUpdates = 0 /\ BUStart(KeyContext, ups)
    \/ nUpdates = 0 /\ BUNoContext
    \/ BUReadMeta
    \/ BUReadCurrent
    \/ \E sent \in BOOLEAN : MayFail(sent) /\ BUBuild(sent)
    \/ BUExec
    \/ BUReply
    \/ BURedisError
SpecMixed == InitMixed /\ [][NextMixed]_vars

\* the step that completes the pipeline of a batch
PipelineBuilt == bu.pc = "build" /\ bu'.pc = "exec"
\* the commands of kind ops the pipeline p holds for leaderboard l
PipelineCmds(p, l, ops) ==
    {i \in 1..Len(p) : p[i].key = ScoreKey(bu.ctx, l) /\ p[i].op \in ops}
BatchLbs(ups) == {ups[j].lb : j \in 1..Len(ups)}

\* C24: the pipeline of a batch holds, for each leaderboard of the batch
\* that has ttlDays > 0, exactly one expiry command for the leaderboard's
\* score key, of ttlDays days (ttlDays * 86400 seconds), and none for a
\* leaderboard without a time to live.
C24_OneExpirePerLeaderboard ==
    [][PipelineBuilt =>
          \A l \in BatchLbs(bu.updates) :
              LET ttl == MetaTtlDays(meta[MetaKey(bu.ctx, l)])
                  expires == PipelineCmds(bu'.pipeline, l, {"expire"})
              IN /\ Cardinality(expires) = IF ttl > 0 THEN 1 ELSE 0
                 /\ \A i \in expires : bu'.pipeline[i].v = ttl]_vars

\* the updates of the batch against leaderboard l, and those of them that
\* best mode passes over: the member holds a score at least as good
UpdatesFor(ups, l) == {j \in 1..Len(ups) : ups[j].lb = l}
PassedOver(x, up) ==
    LET m == meta[MetaKey(x, up.lb)]
        held == ZStored(ScoreKey(x, up.lb))[up.user]
    IN /\ MetaUpdateMode(m) = "best" /\ ~up.increment
       /\ held.has
       /\ IF MetaSortOrder(m) = "desc" THEN up.score <= held.v ELSE up.score >= held.v
WriteCmds(p, l) == PipelineCmds(p, l, {"zadd", "zincrby"})
\* one update each against the three leaderboards
OneEach(ups) == Len(ups) = Cardinality(MixedLbs) /\ BatchLbs(ups) = MixedLbs

ReplayConfig == CHOOSE cfg \in LbConfigs : cfg.ttlDays > 0
ReplayScore == CHOOSE s \in ScoreValues : \A t \in ScoreValues : s <= t
InitReplay == InitTime /\ InitRL(SeqReqs) /\ InitSC(EmptyMeta)
NextReplay ==
    \/ \E l \in Leaderboards :
          CreateLeaderboard(l, ReplayConfig.sortOrder, ReplayConfig.updateMode,
                            ReplayConfig.ttlDays, TRUE)
    \/ \E l \in Leaderboards : DeleteLeaderboard(l, TRUE)
    \/ \E c \in EventClients, l \in Leaderboards, u \in Users :
          USStart(c, KeyContext, l, u, ReplayScore, FALSE)
    \/ \E c \in EventClients : USReadMeta(c)
    \/ \E c \in EventClients : USApply(c)
    \/ \E c \in EventClients : USExpire(c)
    \/ \E c \in EventClients : USReadScore(c)
    \/ \E c \in EventClients : USReadRankReply(c, TRUE)
    \/ \E s \in Subjects : Redeliver(s)
    \/ HandleScoreUpdated(TRUE)
    \/ HandleLeaderboardCreated(TRUE)
    \/ HandleLeaderboardDeleted(TRUE)
SpecReplay == InitReplay /\ [][NextReplay]_vars

\* the step in which the worker handles the message at the head of subject s
Handles(s) == nHandled'[s] = nHandled[s] + 1
KeysAbsent(x, l) == meta[MetaKey(x, l)] = EmptyMeta /\ ~ZExists(ScoreKey(x, l))

\* C26: handling a leaderboard.created event leaves a metadata hash that
\* handling the same event again leaves as it is; handling a
\* leaderboard.deleted event leaves both keys absent, so that handling it
\* again changes nothing, and it is handled without error when the keys are
\* already absent; handling a score.updated event, replayed or not, appends
\* one ScoreEvent row and changes no existing row.
C26_ReplayTolerated ==
    [][/\ Handles("leaderboard.created") =>
            LET m == Head(queue["leaderboard.created"])
                k == MetaKey(m.ctx, m.lb)
            IN /\ HSetCreated(meta'[k], m) = meta'[k]
               /\ \A j \in DOMAIN meta : j # k => meta'[j] = meta[j]
               /\ (queue'["leaderboard.created"] # <<>>
                   /\ Head(queue'["leaderboard.created"]) = m) =>
                     [meta' EXCEPT ![k] = HSetCreated(@, m)] = meta'
       /\ Handles("leaderboard.deleted") =>
            LET m == Head(queue["leaderboard.deleted"])
                k == MetaKey(m.ctx, m.lb)
                z == ScoreKey(m.ctx, m.lb)
            IN /\ meta'[k] = EmptyMeta
               /\ \A u \in DOMAIN zset'[z] : ~zset'[z][u].has
               /\ zTTL'[z] = NoTTL
               /\ KeysAbsent(m.ctx, m.lb) =>
                     /\ meta' = meta
                     /\ \A j \in DOMAIN zset : ZStored(j)' = ZStored(j)
       /\ Handles("score.updated") =>
            /\ Len(scoreEvents') = Len(scoreEvents) + 1
            /\ SubSeq(scoreEvents', 1, Len(scoreEvents)) = scoreEvents
            /\ LET m == Head(queue["score.updated"])
                   row == scoreEvents'[Len(scoreEvents')]
               IN /\ row.lb = m.lb /\ row.user = m.user
                  /\ row.score = m.score /\ row.increment = m.increment]_vars
\* every subject has had an event handled twice
C26_Witness ==
    /\ \A s \in Subjects : nPublished[s] = 1 /\ nHandled[s] = 2 /\ queue[s] = <<>>
    /\ Len(scoreEvents) = 2 /\ scoreEvents[1] = scoreEvents[2]
    /\ \A k \in MetaKeys : meta[k] = EmptyMeta

\* The burst of one tenant on the free plan: requests one after the other at
\* one instant from a full bucket (no key yet), one pause once the request
\* after the last token has been decided, then requests at one instant again.
\* Redis may fail a call; such a request is let through and not decided.
BurstSize == FreeCapacity + 1
InitBurst == InitRLSeq
NextBurst ==
    \/ \E r \in SeqReqs : RLReadNow(r)
    \/ \E r \in SeqReqs : RLScriptRead(r)
    \/ \E r \in SeqReqs : RLScriptWrite(r)
    \/ \E r \in SeqReqs : RLEvalFails(r)
    \/ \E d \in TickSteps : ticks = 0 /\ nReq = BurstSize /\ QuietTick(d)
SpecBurst == InitBurst /\ [][NextBurst]_vars

\* whole tokens a pause of d ms refills into an empty bucket
RefilledIn(d) == Min(FreeCapacity, (d * FreeRefillRate) \div MsPerSecond)

FreeRequestsPerMonth == 10000
QuotaSeeds == {FreeRequestsPerMonth - 1, FreeRequestsPerMonth}
\* the onRequest hooks of buildServer, in order: authMiddleware (401),
\* rateLimitMiddleware (429 'Rate limit exceeded'); a request they pass is
\* proxied and answered with the downstream status.  No hook reads the
\* tenant's usage.
GatewayStatus(keyValid, rlAllowed, used, downstream) ==
    IF ~keyValid THEN 401
    ELSE IF ~rlAllowed THEN 429
    ELSE downstream
\* one request through the gateway: onRequest hooks, proxy, onResponse hook
GatewayRequest(r, keyValid, rlAllowed, downstream) ==
    UsageStart(r, GatewayStatus(keyValid, rlAllowed, usage.tenantRequests, downstream))
InitQuota ==
    /\ InitClock /\ InitRL(SeqReqs) /\ InitSC(EmptyMeta)
    /\ \E used \in QuotaSeeds :
         usage = [NoUsage EXCEPT !.tenantRequests = used, !.tenantExpires = TRUE,
                                 !.projectRequests = used, !.projectExpires = TRUE,
                                 !.tenantHour = used]
    /\ usagePipe = [r \in Trackers |-> <<>>]
    /\ stats = [read |-> FALSE, totalRequests |-> 0, hourly |-> 0]
    /\ nTracked = 0
NextQuota ==
    \/ \E r \in Trackers, keyValid \in BOOLEAN, rlAllowed \in BOOLEAN,
          downstream \in ResponseCodes :
          GatewayRequest(r, keyValid, rlAllowed, downstream)
    \/ \E r \in Trackers : UsageExec(r)
    \/ \E r \in Trackers : UsageExecFails(r)
    \/ GetUsageStats
SpecQuota == InitQuota /\ [][NextQuota]_vars

\* C29: once the tenant's request count has reached the monthly limit of its
\* plan, the gateway serves no further request of the tenant: no response
\* with a status below 400 (the ones the usage hook counts) is sent.
C29_QuotaRefused ==
    [][\A r \in Trackers :
          (usagePipe[r] = <<>> /\ usagePipe'[r] # <<>>) =>
              usage.tenantRequests < FreeRequestsPerMonth]_vars

\* One client replacing a member's score and a RankOf query for the member,
\* on a leaderboard with no metadata hash or with the metadata of a
\* replace-mode leaderboard whose scores live one day; the member starts with
\* no score or with 10, and days may pass.
ReplaceMeta == {EmptyMeta,
                [fields |-> CreatedFields \cup {"updateMode", "sortOrder"},
                 ttlDays |-> 1, updateMode |-> "replace", sortOrder |-> "desc",
             expire |-> NoTTL]}
InitReplace ==
    /\ InitTime /\ InitRL(SeqReqs)
    /\ lbRow = [l \in Leaderboards |-> NoRow]
    /\ \E m \in ReplaceMeta : meta = [k \in MetaKeys |-> m]
    /\ \E seed \in IncSeeds :
         /\ written = [l \in Leaderboards |-> [u \in Users |-> seed]]
         /\ zset = [k \in ScoreKeys |->
                      IF k[2] = KeyContext.tenantId
                      THEN [u \in Users |->
                              IF seed = {} THEN NoEntry
                              ELSE Entry(CHOOSE s \in seed : TRUE)]
                      ELSE EmptyZ]
    /\ zTTL = [k \in ScoreKeys |-> NoTTL]
    /\ us = [c \in Clients |-> IdleUS]
    /\ queue = [s \in Subjects |-> <<>>]
    /\ scoreEvents = <<>>
    /\ nUpdates = 0
    /\ nPublished = [s \in Subjects |-> 0]
    /\ nPubFailed = 0
    /\ nHandled = [s \in Subjects |-> 0]
    /\ flags = {}
NextReplace ==
    \/ \E c \in EventClients, l \in Leaderboards, u \in Users, s \in ScoreValues :
          USStart(c, KeyContext, l, u, s, FALSE)
    \/ \E c \in EventClients : USReadMeta(c)
    \/ \E c \in EventClients : USApply(c)
    \/ \E c \in EventClients : USExpire(c)
    \/ \E c \in EventClients : USReadScore(c)
    \/ \E c \in EventClients : USReadRankReply(c, TRUE)
    \/ \E c \in EventClients : USRedisError(c)
    \/ \E l \in Leaderboards, u \in Users : RankStart(KeyContext, l, u, FALSE, 1)
    \/ RankScore
    \/ RankRank
    \/ TopRedisError
    \/ DayTick
SpecReplace == InitReplace /\ [][NextReplace]_vars

\* the client's last update has been answered 200 and none is under way; the
\* score it submitted is the one of its score.updated event
Updated ==
    /\ \A c \in EventClients : ~InFlight(c) /\ us[c].status = 200
    /\ queue["score.updated"] # <<>>
LastSubmitted == queue["score.updated"][Len(queue["score.updated"])]
\* the step in which a RankOf query for the updated member reads the score
ReadsScoreOfUpdated ==
    /\ tq.pc = "zscore" /\ tq'.pc = "zrevrank"
    /\ Updated
    /\ tq.lb = LastSubmitted.lb /\ tq.userId = LastSubmitted.user

\* C30 as stated: a RankOf for member u that runs after UpdateScore(u, s,
\* increment=false) on a replace-mode leaderboard (or one with no metadata)
\* reads score s, whatever u held before.
C30_RankOfReportsReplaced ==
    [][ReadsScoreOfUpdated => tq'.score = Entry(LastSubmitted.submitted)]_vars

\* C30, amended: the same as long as the score key has not expired since the
\* update; and the score read is the score of the reply that gives a rank.
C30_ReplacedWhileKeyLives ==
    [][/\ (ReadsScoreOfUpdated /\ "expired" \notin flags) =>
             tq'.score = Entry(LastSubmitted.submitted)
       /\ (tq.pc = "zrevrank" /\ tq'.pc = "idle" /\ tq'.rank.has) =>
             tq'.status = 200 /\ tq'.score = tq.score /\ tq'.rank = Entry(1)]_vars
C30_Witness ==
    /\ RankReplied /\ tq.score = Entry(30) /\ tq.rank = Entry(1)
    /\ Updated /\ "expired" \notin flags
    /\ Len(queue["score.updated"]) = 2
    /\ queue["score.updated"][1].submitted = 80
    /\ LastSubmitted.submitted = 30

\* Leaderboards created with and without a time to live for their scores,
\* single and batched score updates, the worker handling every event, and
\* days passing.
TtlScore == CHOOSE s \in BatchScores : \A t \in BatchScores : s <= t
TtlBatches == {<<[lb |-> l, user |-> u, score |-> TtlScore, increment |-> FALSE]>> :
                  l \in Leaderboards, u \in Users}
InitTtl == InitTime /\ InitRL(SeqReqs) /\ InitSC(EmptyMeta)
NextTtl ==
    \/ \E l \in Leaderboards, cfg \in LbConfigs :
          CreateLeaderboard(l, cfg.sortOrder, cfg.updateMode, cfg.ttlDays, TRUE)
    \/ \E l \in Leaderboards : DeleteLeaderboard(l, TRUE)
    \/ \E c \in EventClients, l \in Leaderboards, u \in Users :
          USStart(c, KeyContext, l, u, TtlScore, FALSE)
    \/ \E c \in EventClients : USReadMeta(c)
    \/ \E c \in EventClients : USApply(c)
    \/ \E c \in EventClients : USExpire(c)
    \/ \E c \in EventClients : USReadScore(c)
    \/ \E c \in EventClients : USReadRankReply(c, TRUE)
    \/ \E ups \in TtlBatches : BUStart(KeyContext, ups)
    \/ BUReadMeta
    \/ BUReadCurrent
    \/ BUBuild(TRUE)
    \/ BUExec
    \/ BUReply
    \/ HandleScoreUpdated(TRUE)
    \/ HandleLeaderboardCreated(TRUE)
    \/ HandleLeaderboardDeleted(TRUE)
    \/ DayTick
SpecTtl == InitTtl /\ [][NextTtl]_vars

\* the expiry an EXPIRE of `days` days arms now: ttlDays * 86400 seconds
ArmedFor(days) == [armed |-> TRUE, at |-> clock + days * 86400 * MsPerSecond]

\* C31: no step of the scoring engine or of the worker arms an expiry on a
\* metadata hash, and no step of an update changes the hash; an update that
\* read ttlDays > 0 runs EXPIRE on the score key after its write, which arms
\* the key to lapse ttlDays * 86400 seconds from now (a key that a deletion
\* or its own expiry removed since the write stays absent), and a batch
\* queues its EXPIRE commands on score keys only, with the same effect.
C31_OnlyScoresExpire ==
    [][/\ \A k \in DOMAIN meta' : ~meta'[k].expire.armed
       /\ (us' # us \/ bu' # bu \/ clock' # clock) => meta' = meta
       /\ \A c \in Clients :
             /\ (us[c].pc = "apply" /\ us'[c].pc # "apply" /\ us[c].ttlDays > 0)
                   => us'[c].pc = "expire"
             /\ (us[c].pc = "expire" /\ us'[c].pc # "expire") =>
                   /\ us[c].ttlDays > 0
                   /\ zTTL'[USScoreKey(us[c])] =
                         IF ZExists(USScoreKey(us[c]))
                         THEN ArmedFor(us[c].ttlDays) ELSE NoTTL
       /\ \A i \in 1..Len(bu'.pipeline) :
             bu'.pipeline[i].key \in DOMAIN zTTL
       /\ (bu.pc = "exec" /\ bu' # bu /\ bu.pipeline # <<>>
             /\ Head(bu.pipeline).op = "expire") =>
             /\ Head(bu.pipeline).v > 0
             /\ ZExists(Head(bu.pipeline).key) =>
                   zTTL'[Head(bu.pipeline).key] = ArmedFor(Head(bu.pipeline).v)]_vars
\* a score key armed a second time, two days after it was first written, on
\* a leaderboard whose metadata hash has no expiry
C31_Witness ==
    /\ clock = 2 * MsPerDay
    /\ \E l \in Leaderboards :
          /\ meta[MetaKey(KeyContext, l)].ttlDays = 1
          /\ ~meta[MetaKey(KeyContext, l)].expire.armed
          /\ ZLive(ScoreKey(KeyContext, l))
          /\ zTTL[ScoreKey(KeyContext, l)] = [armed |-> TRUE, at |-> 3 * MsPerDay]
          /\ "expired" \in flags
    /\ \A c \in Clients : us[c].pc = "idle"

\* the step in which the middleware of request r returns
RLReturns(r) == rlPc[r] # "idle" /\ rlPc'[r] = "idle"
\* the step in which the call of the script fails for request r: the
\* middleware returns although the script did not run for it
RLFailed(r) == rlPc[r] = "called" /\ rlPc'[r] = "idle"

InitBillingSpec == InitTime /\ InitRL(SeqReqs) /\ InitSC(EmptyMeta)
NextBilling ==
    \E x \in Contexts, su \in ScoreUpdateDeltas, lr \in LeaderboardReadDeltas :
       RecordUsage(x, su, lr)
SpecBilling == InitBillingSpec /\ [][NextBilling]_vars

\* C33: once RecordUsage has been called for a (tenant, project) today, the
\* table holds exactly one row for that pair and today, its scoreUpdates and
\* leaderboardReads are the sums of the deltas submitted for the pair, and
\* its totalRequests is the sum of the two.
C33_OneRowWithSums ==
    \A x \in Contexts :
       ru.submitted[x].calls > 0 =>
          /\ Cardinality(RowsOf(usageRecords, x, Today)) = 1
          /\ \A i \in RowsOf(usageRecords, x, Today) :
                /\ usageRecords[i].scoreUpdates = ru.submitted[x].scoreUpdates
                /\ usageRecords[i].leaderboardReads = ru.submitted[x].leaderboardReads
                /\ usageRecords[i].totalRequests =
                      usageRecords[i].scoreUpdates + usageRecords[i].leaderboardReads

\* Two projects creating, reading, updating and deleting leaderboards by id.
CtlIds == {"L1", "L2"}
CtlConfig == CHOOSE cfg \in LbConfigs : cfg.ttlDays = 0
InitCtlSpec ==
    /\ InitTime /\ InitRL(SeqReqs)
    /\ lbRow = [l \in CtlIds |-> NoProjectRow]
    /\ meta = [k \in MetaKeys |-> EmptyMeta]
    /\ zset = [k \in ScoreKeys |-> EmptyZ]
    /\ zTTL = [k \in ScoreKeys |-> NoTTL]
    /\ us = [c \in Clients |-> IdleUS]
    /\ queue = [s \in Subjects |-> <<>>]
    /\ scoreEvents = <<>>
    /\ nUpdates = 0
    /\ nPublished = [s \in Subjects |-> 0]
    /\ nPubFailed = 0
    /\ nHandled = [s \in Subjects |-> 0]
    /\ written = [l \in Leaderboards |-> [u \in Users |-> {}]]
    /\ flags = {}
NextCtl ==
    \/ \E x \in Contexts, l \in CtlIds :
          LbCreate(x, l, CtlConfig.sortOrder, CtlConfig.updateMode, CtlConfig.ttlDays)
    \/ \E x \in Contexts, l \in CtlIds : LbGet(x, l)
    \/ \E x \in Contexts, l \in CtlIds, body \in UpdateBodies : LbUpdate(x, l, body)
    \/ \E x \in Contexts, l \in CtlIds : LbDelete(x, l)
    \/ \E l \in CtlIds : LbNoContext("get", l)
SpecCtl == InitCtlSpec /\ [][NextCtl]_vars

\* the request answered in this step is a Get, Update or Delete of a
\* leaderboard that exists in a project other than the request's
Foreign ==
    /\ lc' # lc
    /\ lc'.op \in {"get", "update", "delete"}
    /\ lc'.ctx \in Contexts
    /\ lbRow[lc'.id].state = "active"
    /\ lbRow[lc'.id].projectId # lc'.ctx.projectId
\* within the owning project: Create answers 201 with the row, Get answers
\* the row, Delete answers 200 and removes it, Get then answers 404
OwnLifecycle ==
    lc' # lc =>
       /\ lc'.op = "create" =>
             /\ lc'.status = 201 /\ lc'.entity = lbRow'[lc'.id]
             /\ lbRow'[lc'.id].state = "active"
             /\ lbRow'[lc'.id].projectId = lc'.ctx.projectId
       /\ (lc'.op = "get" /\ lc'.ctx \in Contexts /\ lbRow[lc'.id].state = "active"
             /\ lbRow[lc'.id].projectId = lc'.ctx.projectId) =>
             lc'.status = 200 /\ lc'.entity = lbRow[lc'.id] /\ lbRow' = lbRow
       /\ (lc'.op = "delete" /\ lbRow[lc'.id].state = "active"
             /\ lbRow[lc'.id].projectId = lc'.ctx.projectId) =>
             lc'.status = 200 /\ lbRow'[lc'.id].state = "deleted"
       /\ (lc'.op = "get" /\ lc'.ctx \in Contexts /\ lbRow[lc'.id].state = "deleted") =>
             lc'.status = 404 /\ lbRow' = lbRow

\* C34 as stated: every Get, Update and Delete issued with another project's
\* context answers 404 and changes nothing; within the owning project
\* Create, Read, Delete, Read answer Created, the entity, Deleted, NotFound.
C34_ForeignIsNotFound ==
    [][(Foreign => lc'.status = 404 /\ lbRow' = lbRow) /\ OwnLifecycle]_vars
\* C34, amended: as stated, for Get, Delete and an Update that names at least
\* one field; an Update with an empty body is answered 400 before any row is
\* looked up, and changes nothing either.
C34_ForeignIsRefused ==
    [][/\ Foreign =>
             /\ lbRow' = lbRow
             /\ lc'.status = IF lc'.op = "update" /\ lc'.body = {} THEN 400 ELSE 404
             /\ lc'.entity = NoProjectRow
       /\ OwnLifecycle]_vars
\* the owner has created, read and deleted a leaderboard, another project's
\* Delete of it was answered 404 in between, and the owner's Read now
\* answers 404
C34_Witness ==
    /\ lc.op = "get" /\ lc.status = 404 /\ lc.ctx = KeyContext
    /\ lbRow[lc.id].state = "deleted"
    /\ {<<"create", KeyContext.projectId, 201>>, <<"get", KeyContext.projectId, 200>>,
        <<"delete", OtherContext.projectId, 404>>,
        <<"delete", KeyContext.projectId, 200>>} \subseteq lc.seen
    /\ \A l \in DOMAIN lbRow : lbRow[l].state # "active"

\* One batch of updates for one member of a leaderboard of any update mode and
\* sort order, the member holding no score or 40 before; nothing fails.
EqSeeds == {{}, {40}}
EqMeta ==
    {[fields |-> CreatedFields \cup {"updateMode", "sortOrder"},
      ttlDays |-> 0, updateMode |-> um, sortOrder |-> so,
      expire |-> NoTTL] :
        um \in {"replace", "increment", "best"}, so \in {"asc", "desc"}}
InitEq ==
    /\ InitTime /\ InitRL(SeqReqs)
    /\ lbRow = [l \in Leaderboards |-> NoRow]
    /\ \E m \in EqMeta : meta = [k \in MetaKeys |-> m]
    /\ \E seed \in EqSeeds :
         /\ written = [l \in Leaderboards |-> [u \in Users |-> seed]]
         /\ zset = [k \in ScoreKeys |->
                      IF k[2] = KeyContext.tenantId
                      THEN [u \in Users |->
                              IF seed = {} THEN NoEntry
                              ELSE Entry(CHOOSE s \in seed : TRUE)]
                      ELSE EmptyZ]
    /\ zTTL = [k \in ScoreKeys |-> NoTTL]
    /\ us = [c \in Clients |-> IdleUS]
    /\ queue = [s \in Subjects |-> <<>>]
    /\ scoreEvents = <<>>
    /\ nUpdates = 0
    /\ nPublished = [s \in Subjects |-> 0]
    /\ nPubFailed = 0
    /\ nHandled = [s \in Subjects |-> 0]
    /\ flags = {}
NextEq ==
    \/ \E ups \in Batches : nUpdates = 0 /\ BUStart(KeyContext, ups)
    \/ BUReadMeta
    \/ BUReadCurrent
    \/ BUBuild(TRUE)
    \/ BUExec
    \/ BUReply
SpecEq == InitEq /\ [][NextEq]_vars

\* what one UpdateScore leaves as the member's entry, given the entry e it
\* finds: zincrby, or in best mode zadd only if there is no score or the
\* submitted one is better, or zadd
UpdateScoreEffect(m, e, up) ==
    IF MetaUpdateMode(m) = "increment" \/ up.increment
    THEN Entry(ZIncrBy(e, up.score))
    ELSE IF MetaUpdateMode(m) = "best"
    THEN IF ~e.has \/ ShouldUpdate(MetaSortOrder(m), up.score, e.v)
         THEN Entry(up.score) ELSE e
    ELSE Entry(up.score)
\* the entry after the first n updates of ups, applied one at a time in order
RECURSIVE OneAtATime(_, _, _, _)
OneAtATime(m, e, ups, n) ==
    IF n = 0 THEN e
    ELSE UpdateScoreEffect(m, OneAtATime(m, e, ups, n - 1), ups[n])
\* the entry the member held before the batch
SeedEntry(l, u) ==
    IF written[l][u] = {} THEN NoEntry ELSE Entry(CHOOSE s \in written[l][u] : TRUE)

\* C35: when the pipeline of a batch has run, every member's entry is the
\* one that applying the batch's updates one at a time, in array order,
\* with UpdateScore would have left.
C35_BatchAsOneAtATime ==
    (bu.pc = "exec" /\ bu.pipeline = <<>>) =>
       \A l \in Leaderboards, u \in Users :
          ZStored(ScoreKey(bu.ctx, l))[u] =
             OneAtATime(meta[MetaKey(bu.ctx, l)], SeedEntry(l, u), bu.updates,
                        Len(bu.updates))

\* One batch on a leaderboard without scores, Redis failing at any command,
\* and the worker persisting the events it is delivered.
InitCommit == InitTime /\ InitRL(SeqReqs) /\ InitSC(EmptyMeta)
NextCommit ==
    \/ \E ups \in Batches : nUpdates = 0 /\ BUStart(KeyContext, ups)
    \/ BUReadMeta
    \/ BUReadCurrent
    \/ \E sent \in BOOLEAN : BUBuild(sent)
    \/ BUExec
    \/ BUReply
    \/ BURedisError
    \/ \E ok \in BOOLEAN : HandleScoreUpdated(ok)
SpecCommit == InitCommit /\ [][NextCommit]_vars

\* C36: when the batch has been answered 500, no score.updated event of it
\* has been published, and every ScoreEvent row the worker has stored is for
\* a member whose write reached the sorted set.
C36_PublishedAfterCommit ==
    (bu.pc = "idle" /\ bu.status = 500) =>
       /\ nPublished["score.updated"] = 0
       /\ \A i \in 1..Len(scoreEvents) :
             ZStored(ScoreKey(scoreEvents[i].ctx, scoreEvents[i].lb))[scoreEvents[i].user].has

\* One UpdateScore for a member of a leaderboard that holds other members'
\* scores, and after it one RankOf for the member.  The metadata hash is the one the
\* worker writes, or one that carries the leaderboard's sortOrder as well.
RankEqMeta(so) ==
    {[fields |-> CreatedFields, ttlDays |-> 0, updateMode |-> "", sortOrder |-> "",
      expire |-> NoTTL],
     [fields |-> CreatedFields \cup {"updateMode", "sortOrder"},
      ttlDays |-> 0, updateMode |-> "replace", sortOrder |-> so,
      expire |-> NoTTL]}
InitRankEq ==
    /\ InitTime /\ InitRL(SeqReqs)
    /\ \E so \in {"asc", "desc"} :
         /\ lbRow = [l \in Leaderboards |->
                        [state |-> "active", sortOrder |-> so,
                         updateMode |-> "replace", ttlDays |-> 0]]
         /\ \E m \in RankEqMeta(so) : meta = [k \in MetaKeys |-> m]
    /\ \E seed \in RankSeeds :
         zset = [k \in ScoreKeys |->
                    IF k = ScoreKey(KeyContext, RankLb) THEN seed
                    ELSE [u \in Members |-> NoEntry]]
    /\ zTTL = [k \in ScoreKeys |-> NoTTL]
    /\ us = [c \in Clients |-> IdleUS]
    /\ queue = [s \in Subjects |-> <<>>]
    /\ scoreEvents = <<>>
    /\ nUpdates = 0
    /\ nPublished = [s \in Subjects |-> 0]
    /\ nPubFailed = 0
    /\ nHandled = [s \in Subjects |-> 0]
    /\ written = [l \in Leaderboards |-> [u \in Users |-> {}]]
    /\ flags = {}
NextRankEq ==
    \/ \E c \in EventClients, u \in Users, s \in RankScores :
          nUpdates = 0 /\ USStart(c, KeyContext, RankLb, u, s, FALSE)
    \/ \E c \in EventClients : USReadMeta(c)
    \/ \E c \in EventClients : USApply(c)
    \/ \E c \in EventClients : USReadScore(c)
    \/ \E c \in EventClients : USReadRankReply(c, TRUE)
    \/ \E u \in Users :
          /\ nUpdates > 0 /\ \A c \in Clients : us[c].pc = "idle"
          /\ RankStart(KeyContext, RankLb, u, FALSE, 1)
    \/ RankScore
    \/ RankRank
SpecRankEq == InitRankEq /\ [][NextRankEq]_vars

CeilDiv(a, b) == (a + b - 1) \div b
\* remainingTokens as the client receives it: Redis returns the Lua number
\* cut to an integer (whole tokens)
RemainingTokens(out) == out.tokens \div MsPerSecond
\* Math.ceil((cost - remainingTokens) / config.refillRate)
RetryAfter(out) == CeilDiv(DefaultCost - RemainingTokens(out), FreeRefillRate)
\* the latest request was denied just now
DeniedNow(r) == rlPc[r] = "idle" /\ rlOut[r].allowed = 0 /\ tLast = clock
InitRetry == InitRLSeq
NextRetry ==
    \/ \E r \in SeqReqs : RLReadNow(r)
    \/ \E r \in SeqReqs : RLScriptRead(r)
    \/ \E r \in SeqReqs : RLScriptWrite(r)
    \/ QuietTick(MsPerSecond \div 2)
    \/ \E r \in SeqReqs : DeniedNow(r) /\ QuietTick(RetryAfter(rlOut[r]) * MsPerSecond)
SpecRetry == InitRetry /\ [][NextRetry]_vars

\* C38: a request denied with Retry-After r has r >= 1, and the tenant's next
\* request, decided r seconds after the denied one, is allowed.
C38_RetryAfterSuffices ==
    [][\A r \in DOMAIN rlPc :
          /\ (rlPc[r] = "script" /\ rlPc'[r] = "idle" /\ rlOut'[r].allowed = 0) =>
                RetryAfter(rlOut'[r]) >= 1
          /\ (/\ rlPc[r] = "script" /\ rlPc'[r] = "idle"
              /\ rlOut[r].allowed = 0
              /\ rlNow[r] = tLast + RetryAfter(rlOut[r]) * MsPerSecond) =>
                rlOut'[r].allowed = 1]_vars
\* the burst has emptied the bucket, the next request was denied with
\* Retry-After 1, and the request made one second later has been allowed
C38_Witness ==
    /\ nReq = FreeCapacity + 2 /\ nAllowed = FreeCapacity + 1
    /\ \A r \in DOMAIN rlPc : rlPc[r] = "idle" /\ rlOut[r].allowed = 1
    /\ ticks = 1 /\ clock = MsPerSecond /\ tLast = clock

\* The API server starting, up to MaxSignals shutdown signals arriving at any
\* moment, every connection step succeeding or failing, and time passing.
InitProcSpec == InitTime /\ InitRL(SeqReqs) /\ InitSC(EmptyMeta)
NextProc ==
    \/ \E ok \in BOOLEAN : StartRedis(ok)
    \/ \E ok \in BOOLEAN : StartDb(ok)
    \/ StartListen
    \/ Signal
    \/ \E ok \in BOOLEAN : ShutServer(ok)
    \/ \E ok \in BOOLEAN : ShutRedis(ok)
    \/ \E ok \in BOOLEAN : ShutDb(ok)
    \/ ForceExit
    \/ \E d \in {ShutdownGraceMs \div 2, ShutdownGraceMs} : ProcTick(d)
SpecProc == InitProcSpec /\ [][NextProc]_vars

\* the order in which the connections are to be initialised
InitOrder == <<"db", "cache", "broker", "listener">>
OrderIdx(x) == CHOOSE i \in 1..Len(InitOrder) : InitOrder[i] = x
\* sequence s lists resources in initialisation order / in its reverse
Ascending(s) == \A i, j \in 1..Len(s) : i < j => OrderIdx(s[i]) < OrderIdx(s[j])
Descending(s) == \A i, j \in 1..Len(s) : i < j => OrderIdx(s[i]) > OrderIdx(s[j])

\* C39: the connections are initialised in the order DB, cache, broker,
\* listeners and closed in the reverse order, no resource is closed twice,
\* a signal during a shutdown starts no second one, and a shutdown is over
\* at the latest when its grace period ends.
C39_OrderedLifecycle ==
    /\ Ascending(proc.opened)
    /\ Descending(proc.closed)
    /\ (Running /\ proc.timer.armed) => clock <= proc.timer.at
    /\ proc.signals > 1 => proc.shutPc \in {"server", "redis", "db", "done"}

\* The gateways authenticating requests that present key K, while K may be
\* revoked.
InitAuthSpec == InitTime /\ InitRL(SeqReqs) /\ InitSC(EmptyMeta)
NextAuth ==
    \/ \E g \in Gateways : AuthStart(g, NoContext)
    \/ \E g \in Gateways : AuthMissingKey(g)
    \/ \E g \in Gateways : AuthCacheGet(g)
    \/ \E g \in Gateways : ValidateSelect(g)
    \/ \E g \in Gateways : ValidateReturn(g)
    \/ \E g \in Gateways : ValidateFails(g)
    \/ \E g \in Gateways : AuthSetex(g)
    \/ \E g \in Gateways : AuthCatch(g)
    \/ RevokeKey
    \/ \E d \in AuthTickSteps : Tick(d)
SpecAuth == InitAuthSpec /\ [][NextAuth]_vars

\* C28: a request that presents key K is answered 401 only if K is revoked
\* (K is well-formed and known); when the auth service cannot answer or
\* answers with a server error, the answer is 503, never 401.
C28_UnavailableIs503 ==
    [][\A g \in Gateways :
          (gw[g].pc # "idle" /\ gw'[g].pc = "idle" /\ gw'[g].status = 401) =>
              apiKey.revoked]_vars

\* The gateways serving requests that present key K, on protected and on
\* /auth routes, with context headers of the clients' choosing
InitCtx == InitTime /\ InitRL(SeqReqs) /\ InitSC(EmptyMeta)
NextCtx ==
    \/ \E g \in Gateways, h \in ClientHeaders : AuthStart(g, h)
    \/ \E g \in Gateways, h \in ClientHeaders : AuthSkipped(g, h)
    \/ \E g \in Gateways : AuthMissingKey(g)
    \/ \E g \in Gateways : AuthCacheGet(g)
    \/ \E g \in Gateways : ValidateSelect(g)
    \/ \E g \in Gateways : ValidateReturn(g)
    \/ \E g \in Gateways : ValidateFails(g)
    \/ \E g \in Gateways : AuthSetex(g)
    \/ \E g \in Gateways : AuthCatch(g)
SpecCtx == InitCtx /\ [][NextCtx]_vars

\* Administration requests for one tenant and one key id, served concurrently
InitKeys == InitTime /\ InitRL(SeqReqs) /\ InitSC(EmptyMeta)
NextKeys ==
    \/ \E a \in Admins : CSStart(a)
    \/ \E a \in Admins : CSSelect(a)
    \/ \E a \in Admins : CSInsert(a)
    \/ \E a \in Admins : CSDbError(a)
    \/ \E a \in Admins : RotStart(a)
    \/ \E a \in Admins : RotSelect(a)
    \/ \E a \in Admins : RotUpdate(a)
    \/ \E a \in Admins : RotInsert(a)
    \/ \E a \in Admins : RotDbError(a)
SpecKeys == InitKeys /\ [][NextKeys]_vars

\* Two tenants using the same leaderboard id.  The other tenant's leaderboard
\* has metadata (best, asc, one day) and a score; the leaderboard of the
\* tenant of key K has neither.  The tenant of key K increments, the other
\* tenant submits scores.
IsoScores == {30, 50}
OtherMeta == [fields |-> CreatedFields \cup {"updateMode", "sortOrder"},
              ttlDays |-> 1, updateMode |-> "best", sortOrder |-> "asc",
             expire |-> NoTTL]
OtherScores == [u \in Users |-> Entry(99)]
InitIso ==
    /\ InitTime /\ InitRL(SeqReqs)
    /\ lbRow = [l \in Leaderboards |-> NoRow]
    /\ meta = [k \in MetaKeys |->
                  IF k[3] = OtherContext.tenantId THEN OtherMeta ELSE EmptyMeta]
    /\ zset = [k \in ScoreKeys |->
                  IF k[2] = OtherContext.tenantId THEN OtherScores ELSE EmptyZ]
    /\ zTTL = [k \in ScoreKeys |-> NoTTL]
    /\ us = [c \in Clients |-> IdleUS]
    /\ queue = [s \in Subjects |-> <<>>]
    /\ scoreEvents = <<>>
    /\ nUpdates = 0
    /\ nPublished = [s \in Subjects |-> 0]
    /\ nPubFailed = 0
    /\ nHandled = [s \in Subjects |-> 0]
    /\ written = [l \in Leaderboards |-> [u \in Users |-> {}]]
    /\ flags = {}
NextIso ==
    \/ \E c \in Clients, x \in Contexts, l \in Leaderboards, u \in Users,
          s \in IsoScores : USStart(c, x, l, u, s, x = KeyContext)
    \/ \E c \in Clients : USNoContext(c)
    \/ \E c \in Clients : USReadMeta(c)
    \/ \E c \in Clients : USBestRead(c)
    \/ \E c \in Clients : USApply(c)
    \/ \E c \in Clients : USExpire(c)
    \/ \E c \in Clients : USReadScore(c)
    \/ \E c \in Clients : USReadRankReply(c, FALSE)
    \/ \E c \in Clients : USRedisError(c)
    \/ \E x \in Contexts, l \in Leaderboards : TopStart(x, l, DefaultLimit, 0)
    \/ TopNoContext
    \/ TopRange
    \/ TopCard
    \/ TopRedisError
SpecIso == InitIso /\ [][NextIso]_vars

\* C16: a score update or ranking query issued with tenant context (t, p)
\* reads and writes only the keys l:{t}:{p}:{id} and l:meta:{t}:{p}:{id}: a
\* step changes a sorted set (or its expiry) only if a request of that key's
\* own tenant acts, no step changes metadata, and what a request reads is the
\* content of its own tenant's keys; so nothing one tenant does changes a key
\* of another tenant.
C16_NamespaceIsolation ==
    [][/\ \A k \in ScoreKeys :
            (zset'[k] # zset[k] \/ zTTL'[k] # zTTL[k]) =>
                \E c \in Clients : /\ us'[c] # us[c]
                                   /\ k = <<"l", us[c].ctx.tenantId,
                                             us[c].ctx.projectId, us[c].lb>>
       /\ meta' = meta
       /\ \A c \in Clients :
            LET own == <<"l", us[c].ctx.tenantId, us[c].ctx.projectId, us[c].lb>>
                ownMeta == <<"l", "meta", us[c].ctx.tenantId,
                             us[c].ctx.projectId, us[c].lb>>
            IN /\ (us[c].pc = "meta" /\ us'[c].pc \in {"bestRead", "apply"}) =>
                      /\ us'[c].updateMode = MetaUpdateMode(meta[ownMeta])
                      /\ us'[c].sortOrder = MetaSortOrder(meta[ownMeta])
                      /\ us'[c].ttlDays = MetaTtlDays(meta[ownMeta])
               /\ (us[c].pc = "bestRead" /\ us'[c].pc = "apply") =>
                      us'[c].current = ZStored(own)[us[c].user]
               /\ (us[c].pc = "readScore" /\ us'[c].pc = "readRank") =>
                      us'[c].final = ZStored(own)[us[c].user]
       /\ (tq.pc = "range" /\ tq'.pc = "card") =>
            \A i \in 1..Len(tq'.results) :
                LET z == ZStored(<<"l", tq.ctx.tenantId, tq.ctx.projectId, tq.lb>>)
                IN /\ z[tq'.results[i].userId].has
                   /\ tq'.results[i].score = z[tq'.results[i].userId].v]_vars
\* both tenants have written a score under the same leaderboard id, each sorted
\* set holds its own tenant's score, and a ranking query of the tenant of key
\* K has answered with that tenant's score
C16_Witness ==
    /\ tq.pc = "idle" /\ tq.status = 200 /\ tq.ctx = KeyContext
    /\ Len(tq.entries) = 1
    /\ \E l \in Leaderboards, u \in Users :
         /\ zset[ScoreKey(KeyContext, l)][u].has
         /\ zset[ScoreKey(OtherContext, l)][u].has
         /\ zset[ScoreKey(OtherContext, l)][u] # OtherScores[u]
         /\ zset[ScoreKey(KeyContext, l)][u] # zset[ScoreKey(OtherContext, l)][u]
         /\ tq.entries[1].score = zset[ScoreKey(KeyContext, l)][u].v

----------------------------------------------------------------------------
(* Claims about the rate limiter *)

AllIdle == \A r \in DOMAIN rlPc : rlPc[r] = "idle"

\* floor(C + R * (tN - t1)), in whole tokens
RefillBound == (Capacity + RefillRate * (tLast - tFirst)) \div MsPerSecond

\* C1 as stated: after N requests of one tenant made one after the other,
\* starting from a full bucket, the number allowed equals
\* min(N, floor(C + R * (tN - t1))).
C1_AllowedEqualsBound == nReq > 0 => nAllowed = Min(nReq, RefillBound)

\* C1 as amended: the number allowed is at most min(N, floor(C + R * (tN - t1))),
\* and equals it when no refill was cut by the capacity clamp (or by the key
\* expiring) and no request before the last one was denied.
C1_AllowedAtMostBound ==
    nReq > 0 =>
        /\ nAllowed <= Min(nReq, RefillBound)
        /\ (~refillLost /\ ~deniedEarly) => nAllowed = Min(nReq, RefillBound)

\* The bucket has been drained and a later request, after a refill of half a
\* token, was denied.
C1_Witness ==
    /\ AllIdle
    /\ nReq > FreeCapacity
    /\ tLast > tFirst
    /\ nAllowed < nReq
    /\ ~refillLost /\ ~deniedEarly

\* C2: the bucket updates of one tenant are serialized.  At most one script
\* runs at a time, the bucket a running script has read is still the stored
\* bucket when it writes (no other write slips in between), and no token is
\* consumed twice: as long as no refill was cut, the stored tokens are the
\* capacity plus the refill since the first request less one token for each
\* allowed request.
C2_Serialized ==
    /\ Cardinality({r \in DOMAIN rlPc : rlPc[r] = "script"}) <= 1
    /\ \A r \in DOMAIN rlPc : rlPc[r] = "script" => rlSnap[r] = RLStored
    /\ (rlBucket.present /\ ~refillLost) =>
          rlBucket.tokens =
              Capacity + RefillRate * (rlBucket.last_refill - tFirst) - nAllowed * Cost

\* A script is running while another request of the tenant waits for Redis,
\* after an earlier request consumed a token.
C2_Witness ==
    /\ nAllowed >= 1
    /\ \E r, q \in DOMAIN rlPc :
          r # q /\ rlPc[r] = "script" /\ rlPc[q] = "called"

\* C3: the stored bucket of a tenant always holds 0 <= tokens <= capacity,
\* also when the requests' timestamps reach Redis out of order.
C3_BucketInRange ==
    RLStored.present => (0 <= RLStored.tokens /\ RLStored.tokens <= Capacity)

----------------------------------------------------------------------------
(* Claims about the scoring engine, the event bus and the worker *)

UpdatesDone == \A c \in Clients : ~InFlight(c)

\* the best of a set of scores: the lowest when ascending, else the highest
Best(sortOrder, S) ==
    IF sortOrder = "asc" THEN CHOOSE x \in S : \A y \in S : x <= y
    ELSE CHOOSE x \in S : \A y \in S : x >= y

\* the keys of leaderboard l of the tenant of key K
LbScores(l) == ScoreKey(KeyContext, l)
LbMeta(l) == meta[MetaKey(KeyContext, l)]

BestMode(l) == MetaUpdateMode(LbMeta(l)) = "best"

StoredIsBest(l, u) ==
    ZStored(LbScores(l))[u] = Entry(Best(MetaSortOrder(LbMeta(l)), written[l][u]))

\* C4 as stated: on a best-mode leaderboard, after any sequence of
\* non-overlapping UpdateScore writes for one user (no increment flag), the
\* stored score is the max of the written scores when sortOrder = desc and
\* the min when sortOrder = asc (looked at while a score is stored).
C4_BestOfAllWrites ==
    \A l \in Leaderboards, u \in Users :
        (UpdatesDone /\ BestMode(l) /\ written[l][u] # {}
           /\ ZStored(LbScores(l))[u].has
           /\ flags \cap {"overlap", "incremented"} = {})
        => StoredIsBest(l, u)

\* C4 as amended: the same, as long as the score key has not expired (ttlDays)
\* between the writes.
C4_BestWhileKeyLives ==
    \A l \in Leaderboards, u \in Users :
        (UpdatesDone /\ BestMode(l) /\ written[l][u] # {}
           /\ flags \cap {"overlap", "incremented", "expired"} = {})
        => StoredIsBest(l, u)

\* Two different scores were written one after the other and the better one
\* is stored.
C4_Witness ==
    \E l \in Leaderboards, u \in Users :
        /\ UpdatesDone /\ BestMode(l) /\ flags = {}
        /\ Cardinality(written[l][u]) >= 2
        /\ StoredIsBest(l, u)

\* C5: when clients submit UpdateScore concurrently for one member in best
\* mode, then once all writes have committed the stored score is the best of
\* the previous score and the submitted scores (the previous score being the
\* best of the earlier writes).
C5_ConcurrentBestConverges ==
    \A l \in Leaderboards, u \in Users :
        (UpdatesDone /\ BestMode(l) /\ written[l][u] # {}
           /\ flags \cap {"incremented", "expired"} = {})
        => StoredIsBest(l, u)

AllMetaFields == CreatedFields \cup {"updateMode", "sortOrder"}

C7_EventCarriesSubmitted ==
    \A i \in 1..Len(queue["score.updated"]) :
        queue["score.updated"][i].score = queue["score.updated"][i].submitted

\* C8: a message whose handler run failed is negatively acknowledged and
\* redelivered: every message the broker accepted is still to be delivered or
\* has been processed by a handler run that succeeded.
C8_FailedMessageRedelivered ==
    \A s \in Subjects : nPublished[s] = nHandled[s] + Len(queue[s])

\* no publication failed and no handler run failed
NoEventLost ==
    /\ nPublished["leaderboard.created"] =
          Cardinality({l \in Leaderboards : lbRow[l].state # "none"})
    /\ nPublished["leaderboard.deleted"] =
          Cardinality({l \in Leaderboards : lbRow[l].state = "deleted"})
    /\ \A s \in Subjects : nPublished[s] = nHandled[s] + Len(queue[s])

----------------------------------------------------------------------------
(* Claims about gateway authentication *)

\* C10: once key K has been revoked and cacheTTL + 1 s has passed since the
\* revocation, a gateway request presenting K is never authenticated (it is
\* answered 401), however validations in flight and cache writes interleave
\* with the revocation.
C10_RevokedKeyRejected ==
    \A g \in Gateways :
        ~(/\ apiKey.revoked
          /\ gw[g].arrived >= apiKey.at + (CACHE_TTL + 1) * MsPerSecond
          /\ gw[g].status = 200)

\* C11: when key K is revoked, the cache entry holding its positive
\* validation is deleted: right after every revocation step the shared cache
\* holds no positive validation for K.
C11_RevocationClearsCache ==
    [][(apiKey' # apiKey /\ apiKey'.revoked) => ~AuthCached']_vars

\* C12: the auth cache is written only with a positive validation result
\* (never after an invalid or failed validation), every entry written expires
\* at most 300 s after the write, and no other step, a cache hit included,
\* changes the entry or its expiry.
C12_OnlyPositiveCached ==
    [][authCache' # authCache =>
          /\ \E g \in Gateways :
                gw[g].pc = "setex" /\ gw[g].snap /\ gw'[g].status = 200
          /\ authCache'.has
          /\ authCache'.expireAt <= clock + 300 * MsPerSecond]_vars

\* An entry is cached, and a request that arrived after it was written was
\* authenticated from it while the entry still expires 300 s after the write.
C12_Witness ==
    /\ AuthCached
    /\ \E g \in Gateways :
          /\ gw[g].pc = "idle" /\ gw[g].status = 200
          /\ gw[g].arrived > authCache.expireAt - CACHE_TTL * MsPerSecond

----------------------------------------------------------------------------
(* Claims about administration *)

\* C13: in every reachable state tenant T has at most one subscription with
\* status = active, however concurrent CreateSubscription calls interleave.
C13_OneActiveSubscription == subs <= 1

\* keys that validate: K unless revoked, and the keys rotations of K's id
\* inserted
UsableKeys == (IF apiKey.revoked THEN 0 ELSE 1) + newKeys

\* C14: the number of usable keys derived from one key id never exceeds one,
\* however concurrent RotateApiKey calls on that id interleave.
C14_OneUsableKey == UsableKeys <= 1

----------------------------------------------------------------------------
(* Claims about tenant context and key material *)

\* C15: every request presenting key K that the gateway forwards carries, in
\* X-Tenant-Id and X-Project-Id, the creation context of K, whatever context
\* headers the client sent.
C15_ForwardedContextIsKeys ==
    \A g \in Gateways : gw[g].forwarded => gw[g].hdr = KeyContext

\* C17: the plaintext of key K is stored nowhere: the api_keys row holds a
\* hash of it, and neither the key nor the value of the auth cache entry
\* holds it.
C17_PlaintextNotStored ==
    /\ apiKey.keyHash.form # "plain"
    /\ authCache.has => authCache.key.body.form # "plain"

====
